---- MODULE Spec2Model ----
\* Model of logohunter: the rule-based scoring engine (logo_hunter/scoring.py),
\* a part of its rule catalogue (logo_hunter/rules/...), and the orchestration
\* in logo_hunter/hunter.py (find_logo_urls, fetch_best_logo, process_image,
\* get_customer_logo).
\*
\* Representation choices:
\*  - text attributes (alt text, class strings) are sequences of characters,
\*    so that lower() and the "in" substring test are computed, not assumed;
\*  - URLs are strings where they are only compared for equality (SpecHunt),
\*    and sequences of characters where they are parsed, joined or tested
\*    for a prefix (SpecUnits, SpecFind);
\*  - a number returned by a rule is kept as an integer count of quarters
\*    (q stands for q/4): 0, 0.25, 0.5, 0.75, 1.0 are exact binary floats, so
\*    weight * value in the code is exact and int() is a truncation of w*q/4;
\*  - where the rule functions themselves are called (rule_func, SpecUnits),
\*    what they return is kept as its Python type and its value in
\*    hundredths, so that 0.8, 0.67 and 0.33 and counts above 1 are told apart.
EXTENDS Integers, Sequences, FiniteSets, TLC

VARIABLES
  rules,         \* ScoringEngine.rules of the process-wide engine
  result,        \* the latest calculate_score call, <<[ctx, out]>>, or <<>> before any
  probe,         \* an earlier calculate_score call kept for comparison, or <<>>
  pc,            \* where the get_customer_logo call stands
  all_icons,     \* find_logo_urls: candidates in extraction order
  fb,            \* _get_fallback_icons: index of the path probed next
  unique_icons,  \* find_logo_urls: candidates after deduplication
  scored_icons,  \* find_logo_urls: candidates scored so far
  sorted_icons,  \* what find_logo_candidates returns
  logo_urls,     \* what find_logo_urls returns
  attempts,      \* fetch_best_logo: the URLs tried, each with the response it got
  opened,        \* fetch_best_logo: attempts on which Image.open was called
  fetch_calls,   \* number of fetch_best_logo calls made
  best_logo,     \* what fetch_best_logo returned
  output,        \* what get_customer_logo returned
  call,          \* the latest call of a helper, <<[op, ..., out]>>, or <<>> before any
  root_page,     \* find_logo_urls: the answer to the root page fetch, <<page>>
  heads,         \* find_logo_urls: the answers to the fallback HEAD probes
  fetched,       \* find_logo_urls: the answers to the scoring fetches so far
  requests,      \* find_logo_urls: the HTTP requests sent so far, in order
  logger,        \* the module-level logger of hunter.py
  scoring_engine,\* _scoring_engine of scoring.py: <<>> for None, or <<engine>>
  engines,       \* every ScoringEngine constructed so far, in order
  tasks          \* the concurrent get_customer_logo calls, one record each

engine_vars == <<rules, result, probe>>
hunt_vars == <<pc, all_icons, fb, unique_icons, scored_icons, sorted_icons,
               logo_urls, attempts, opened, fetch_calls, best_logo, output>>
find_vars == <<root_page, heads, fetched, requests>>
task_vars == <<logger, scoring_engine, engines, tasks>>
rest_vars == <<call, find_vars, task_vars>>
vars == <<engine_vars, hunt_vars, rest_vars>>

\* ------------------------------------------------------------------ bounds
MaxWeight == 3
MaxIcons == 3

Weights == (-MaxWeight)..MaxWeight

\* ------------------------------------------------------------------ text
\* The upper-case ASCII letters and their lower-case forms.
UPPER == <<"A", "B", "C", "D", "E", "F", "G", "H", "I", "J", "K", "L", "M", "N", "O", "P", "Q", "R", "S", "T", "U", "V", "W", "X", "Y", "Z">>
LOWER == <<"a", "b", "c", "d", "e", "f", "g", "h", "i", "j", "k", "l", "m", "n", "o", "p", "q", "r", "s", "t", "u", "v", "w", "x", "y", "z">>

LowerChar(c) ==
  IF \E k \in 1..Len(UPPER) : UPPER[k] = c
  THEN LOWER[CHOOSE k \in 1..Len(UPPER) : UPPER[k] = c]
  ELSE c

Lower(s) == [i \in 1..Len(s) |-> LowerChar(s[i])]

Contains(s, sub) ==
  \E i \in 1..(Len(s) - Len(sub) + 1) : SubSeq(s, i, i + Len(sub) - 1) = sub

LOGO == <<"l", "o", "g", "o">>

\* ------------------------------------------------------------------ rules
\* What a rule call produces: a bool, a number (in quarters), some other
\* object (a str, None), or an exception.
RBool(b) == [kind |-> "bool", b |-> b, q |-> 0]
RNum(q) == [kind |-> "num", b |-> FALSE, q |-> q]
ROther == [kind |-> "other", b |-> FALSE, q |-> 0]
RRaise == [kind |-> "raise", b |-> FALSE, q |-> 0]

Max2(a, b) == IF a >= b THEN a ELSE b
Min2(a, b) == IF a <= b THEN a ELSE b

extremely_wide_aspect_ratio(ctx) ==
  IF ctx.width = 0 \/ ctx.height = 0 THEN RNum(0)
  ELSE LET mx == Max2(ctx.width, ctx.height)
           mn == Min2(ctx.width, ctx.height)
       IN IF mx > 8 * mn THEN RNum(4)
          ELSE IF mx > 6 * mn THEN RNum(3)
          ELSE IF mx > 5 * mn THEN RNum(2)
          ELSE RBool(FALSE)

logo_in_alt_text(ctx) ==
  IF ctx.alt_text = <<>> THEN ROther
  ELSE RBool(Contains(Lower(ctx.alt_text), LOGO))

deep_dom_nesting(ctx) ==
  LET depth == Len(ctx.parent_classes)
  IN IF depth > 15 THEN RNum(4)
     ELSE IF depth > 12 THEN RNum(2)
     ELSE IF depth > 10 THEN RNum(1)
     ELSE RBool(FALSE)

\* The engine's call rule_func(img=..., width=..., ...): the rule either
\* raises (ctx.faults names the rules that throw on this context) or returns.
RuleCall(func, ctx) ==
  IF func \in ctx.faults THEN RRaise
  ELSE CASE func = "extremely_wide_aspect_ratio" -> extremely_wide_aspect_ratio(ctx)
         [] func = "logo_in_alt_text" -> logo_in_alt_text(ctx)
         [] func = "deep_dom_nesting" -> deep_dom_nesting(ctx)

\* ------------------------------------------------------------------ engine
\* Rule functions in the order _load_all_rules appends them (per category:
\* bonus module, then penalty module), with category, type and docstring.
RuleCatalogue ==
  << [func |-> "extremely_wide_aspect_ratio",
      label |-> "dimensions/penalty: Apply penalty for extremely wide or tall images (unlikely to be logos)"],
     [func |-> "logo_in_alt_text",
      label |-> "html/bonus: Award bonus for 'logo' keyword in alt text"],
     [func |-> "deep_dom_nesting",
      label |-> "html/penalty: Apply penalty for images deeply nested in DOM"] >>

RuleFuncs == {RuleCatalogue[i].func : i \in 1..Len(RuleCatalogue)}

\* self.rules after __init__: (rule_func, rule_label, rule_value) triples, the
\* value read from bonuses.txt / penalties.txt.
LoadAllRules(values) ==
  [i \in 1..Len(RuleCatalogue) |->
     [func |-> RuleCatalogue[i].func,
      label |-> RuleCatalogue[i].label,
      value |-> values[RuleCatalogue[i].func]]]

\* int(x) for x = n/d, d > 0: truncation toward zero.
IntTrunc(n, d) == IF n >= 0 THEN n \div d ELSE -((-n) \div d)

\* round(x) for x = n/d, d > 0: to nearest, halves to even (Python's round).
Round(n, d) ==
  LET fl == IF n >= 0 THEN n \div d ELSE -(((-n) + d - 1) \div d)
      rem == n - fl * d
  IN IF 2 * rem < d THEN fl
     ELSE IF 2 * rem > d THEN fl + 1
     ELSE IF fl % 2 = 0 THEN fl ELSE fl + 1

ScoreContributionRounded(rule_value, rule_applies) ==
  IF rule_applies.kind = "bool" THEN (IF rule_applies.b THEN rule_value ELSE 0)
  ELSE IF rule_applies.kind = "num" THEN Round(rule_value * rule_applies.q, 4)
  ELSE 0

ScoreContribution(rule_value, rule_applies) ==
  IF rule_applies.kind = "bool" THEN (IF rule_applies.b THEN rule_value ELSE 0)
  ELSE IF rule_applies.kind = "num" THEN IntTrunc(rule_value * rule_applies.q, 4)
  ELSE 0

ScoreResult(raised, total, details) ==
  [raised |-> raised, total_score |-> total, rule_details |-> details]

RECURSIVE ScoreLoopClamped(_, _, _, _, _)
ScoreLoopClamped(rs, ctx, i, total_score, rule_details) ==
  IF i > Len(rs) THEN ScoreResult(FALSE, Max2(total_score, 0), rule_details)
  ELSE LET rule_applies == RuleCall(rs[i].func, ctx)
           c == ScoreContribution(rs[i].value, rule_applies)
       IN IF rule_applies.kind = "raise" \/ c = 0
          THEN ScoreLoopClamped(rs, ctx, i + 1, total_score, rule_details)
          ELSE ScoreLoopClamped(rs, ctx, i + 1, total_score + c,
                                Append(rule_details, <<rs[i].label, c>>))

RECURSIVE ScoreLoopAborting(_, _, _, _, _)
ScoreLoopAborting(rs, ctx, i, total_score, rule_details) ==
  IF i > Len(rs) THEN ScoreResult(FALSE, total_score, rule_details)
  ELSE LET rule_applies == RuleCall(rs[i].func, ctx)
           c == ScoreContribution(rs[i].value, rule_applies)
       IN IF rule_applies.kind = "raise"
          THEN ScoreResult(TRUE, 0, <<>>)
          ELSE IF c = 0
          THEN ScoreLoopAborting(rs, ctx, i + 1, total_score, rule_details)
          ELSE ScoreLoopAborting(rs, ctx, i + 1, total_score + c,
                                 Append(rule_details, <<rs[i].label, c>>))

\* The for loop of calculate_score, from rule i on.
RECURSIVE ScoreLoop(_, _, _, _, _)
ScoreLoop(rs, ctx, i, total_score, rule_details) ==
  IF i > Len(rs) THEN ScoreResult(FALSE, total_score, rule_details)
  ELSE LET rule_applies == RuleCall(rs[i].func, ctx)
           c == ScoreContribution(rs[i].value, rule_applies)
       IN IF rule_applies.kind = "raise" \/ c = 0
          THEN ScoreLoop(rs, ctx, i + 1, total_score, rule_details)
          ELSE ScoreLoop(rs, ctx, i + 1, total_score + c,
                         Append(rule_details, <<rs[i].label, c>>))

calculate_score_stateful(rs, ctx) ==
  ScoreLoop(rs, ctx, 1, IF result = <<>> THEN 0 ELSE result[1].out.total_score, <<>>)

calculate_score(rs, ctx) == ScoreLoop(rs, ctx, 1, 0, <<>>)

\* ------------------------------------------------------------------ contexts
NoImg == [present |-> FALSE, size |-> <<0, 0>>]

Context(img, width, height, url, alt_text, css_classes, element_id, parent_classes, svg_content, faults) ==
  [img |-> img, width |-> width, height |-> height, url |-> url,
   alt_text |-> alt_text, css_classes |-> css_classes,
   element_id |-> element_id, parent_classes |-> parent_classes,
   svg_content |-> svg_content, faults |-> faults]

Ancestors(n) == [i \in 1..n |-> <<"r", "o", "w">>]

\* Candidate contexts handed to the engine: a wide banner with "Logo" as alt
\* text under 13 ancestors, an element with nothing known, a square image
\* with alt text "Logo" at the top of the document.
BaseContexts ==
  { [width |-> 600, height |-> 100, alt_text |-> <<"L", "o", "g", "o">>,
     parent_classes |-> Ancestors(13)],
    [width |-> 0, height |-> 0, alt_text |-> <<>>, parent_classes |-> <<>>],
    [width |-> 100, height |-> 100, alt_text |-> <<"L", "o", "g", "o">>,
     parent_classes |-> <<>>] }

ScoreContexts ==
  {Context(NoImg, c.width, c.height, "https://example.com/a.png", c.alt_text,
           <<>>, <<>>, c.parent_classes, "", f) :
     c \in BaseContexts, f \in SUBSET RuleFuncs}

\* ------------------------------------------------------------------ candidates
Icon(url, width, height, format, alt_text, css_classes, element_id, parent_classes, score, rule_details) ==
  [url |-> url, width |-> width, height |-> height, format |-> format,
   alt_text |-> alt_text, css_classes |-> css_classes,
   element_id |-> element_id, parent_classes |-> parent_classes,
   score |-> score, rule_details |-> rule_details]

\* Icon(url, width, height, format): the other fields take their defaults.
PlainIcon(url, width, height, format) ==
  Icon(url, width, height, format, <<>>, <<>>, <<>>, <<>>, 0, <<>>)

LogoUrl == "https://example.com/logo.png"
BannerUrl == "https://example.com/banner.png"

\* Candidates _find_icons_from_html can produce for the pages considered: the
\* same image found twice with different metadata (by a link tag, and as an
\* <img> deep in the page), and a banner image.
HtmlIcons ==
  { Icon(LogoUrl, 0, 0, "png", <<"L", "o", "g", "o">>, <<>>, <<>>, <<>>, 0, <<>>),
    Icon(LogoUrl, 600, 100, "png", <<>>, <<>>, <<>>, Ancestors(13), 0, <<>>),
    Icon(BannerUrl, 600, 100, "png", <<>>, <<>>, <<>>, <<>>, 0, <<>>) }

RECURSIVE SeqsUpTo(_, _)
SeqsUpTo(S, n) ==
  IF n = 0 THEN {<<>>}
  ELSE LET shorter == SeqsUpTo(S, n - 1)
       IN shorter \cup {Append(q, x) : q \in shorter, x \in S}

FALLBACK_LOCATIONS ==
  << "/favicon.svg", "/logo.svg", "/icon.svg", "/favicon-512x512.png",
     "/apple-touch-icon.png", "/apple-touch-icon-precomposed.png",
     "/favicon.ico" >>

\* urljoin("https://example.com", path)
UrlJoin(path) ==
  CASE path = "/favicon.svg" -> "https://example.com/favicon.svg"
    [] path = "/logo.svg" -> "https://example.com/logo.svg"
    [] path = "/icon.svg" -> "https://example.com/icon.svg"
    [] path = "/favicon-512x512.png" -> "https://example.com/favicon-512x512.png"
    [] path = "/apple-touch-icon.png" -> "https://example.com/apple-touch-icon.png"
    [] path = "/apple-touch-icon-precomposed.png" -> "https://example.com/apple-touch-icon-precomposed.png"
    [] path = "/favicon.ico" -> "https://example.com/favicon.ico"

\* path.split(".")[-1].lower() of the fallback paths
FormatExt(path) ==
  CASE path \in {"/favicon.svg", "/logo.svg", "/icon.svg"} -> "svg"
    [] path = "/favicon.ico" -> "ico"
    [] OTHER -> "png"

\* SIZE_REGEX.search(path) on the fallback paths, then the 180 default of the
\* apple-touch-icon paths: <<width, height>>.
FallbackSize(path) ==
  CASE path = "/favicon-512x512.png" -> <<512, 512>>
    [] path \in {"/apple-touch-icon.png", "/apple-touch-icon-precomposed.png"} -> <<180, 180>>
    [] OTHER -> <<0, 0>>

\* The icon appended for a probe of path that answered 200 at final_url.
FallbackIcon(path, final_url) ==
  PlainIcon(final_url, FallbackSize(path)[1], FallbackSize(path)[2], FormatExt(path))

\* ------------------------------------------------------------------ responses
CT_PNG == <<"i","m","a","g","e","/","p","n","g">>
CT_SVG_XML == <<"i","m","a","g","e","/","s","v","g","+","x","m","l">>
CT_WEBP == <<"i","m","a","g","e","/","w","e","b","p">>
CT_X_ICON == <<"i","m","a","g","e","/","x","-","i","c","o","n">>
CT_JPEG == <<"i","m","a","g","e","/","j","p","e","g">>
CT_JPG == <<"i","m","a","g","e","/","j","p","g">>
CT_GIF == <<"i","m","a","g","e","/","g","i","f">>
CT_HTML == <<"t","e","x","t","/","h","t","m","l">>
CT_SVG == <<"i","m","a","g","e","/","s","v","g">>
SVG == <<"s","v","g">>

valid_types == <<CT_PNG, CT_SVG_XML, CT_WEBP, CT_X_ICON, CT_JPEG, CT_JPG, CT_GIF>>

\* any(t in content_type for t in valid_types)
IsValidType(content_type) ==
  \E k \in 1..Len(valid_types) : Contains(content_type, valid_types[k])

\* Response bodies: the bytes of a raster image of some size, UTF-8 text, or
\* bytes that are neither.
ImageBody(w, h) == [kind |-> "image", size |-> <<w, h>>, text |-> ""]
TextBody(t) == [kind |-> "text", size |-> <<0, 0>>, text |-> t]
BinaryBody == [kind |-> "binary", size |-> <<0, 0>>, text |-> ""]

\* status "error": client.get raised; otherwise the HTTP status.
Response(status, content_type, body) ==
  [status |-> status, content_type |-> content_type, body |-> body]

\* Answers to the scoring fetch of _calculate_score_with_rules, which does
\* not look at the status.
ScoringResponses ==
  { Response("error", <<>>, BinaryBody),
    Response("404", CT_HTML, TextBody("<html/>")),
    Response("200", CT_PNG, ImageBody(100, 100)),
    Response("200", CT_PNG, ImageBody(600, 100)),
    Response("200", CT_PNG, BinaryBody),
    Response("200", CT_SVG_XML, TextBody("<svg/>")),
    Response("200", CT_SVG_XML, BinaryBody) }

\* Answers to the fetch of fetch_and_validate: a missing page, an image, bytes
\* that are no image, an SVG document, an empty one, one that is not UTF-8,
\* and an SVG document served as "image/svg".
FetchResponses ==
  { Response("404", CT_HTML, TextBody("<html/>")),
    Response("200", CT_PNG, ImageBody(100, 100)),
    Response("200", CT_PNG, BinaryBody),
    Response("200", CT_SVG_XML, TextBody("<svg/>")),
    Response("200", CT_SVG_XML, TextBody("")),
    Response("200", CT_SVG_XML, BinaryBody),
    Response("200", CT_SVG, TextBody("<svg/>")) }

\* response.raise_for_status() passes
StatusOk(resp) == resp.status = "200"

\* content.decode("utf-8") succeeds / Image.open(BytesIO(content)) succeeds
DecodesAsText(body) == body.kind = "text"
DecodesAsImage(body) == body.kind = "image"

\* ------------------------------------------------------------------ hunter
Or0(x, default) == IF x # 0 THEN x ELSE default

IconContext(icon, img, width, height, svg_content) ==
  Context(img, width, height, icon.url, icon.alt_text, icon.css_classes,
          icon.element_id, icon.parent_classes, svg_content, {})

ScoringContextDeclaredFirst(icon, resp) ==
  LET fallback == IconContext(icon, NoImg, icon.width, icon.height, "")
  IN IF resp.status = "error" THEN fallback
     ELSE IF Contains(resp.content_type, SVG)
     THEN IF DecodesAsText(resp.body)
          THEN IconContext(icon, NoImg, Or0(Or0(icon.width, 100), icon.width),
                           Or0(Or0(icon.height, 100), icon.height), resp.body.text)
          ELSE fallback
     ELSE IF DecodesAsImage(resp.body)
          THEN IconContext(icon, [present |-> TRUE, size |-> resp.body.size],
                           Or0(icon.width, resp.body.size[1]),
                           Or0(icon.height, resp.body.size[2]), "")
          ELSE fallback

\* The keyword arguments _calculate_score_with_rules hands to
\* calculate_score, given the icon and the response to the scoring fetch:
\* those of the try block, or those of the except clause.
ScoringContext(icon, resp) ==
  LET fallback == IconContext(icon, NoImg, icon.width, icon.height, "")
  IN IF resp.status = "error" THEN fallback
     ELSE IF Contains(resp.content_type, SVG)
     THEN IF DecodesAsText(resp.body)
          THEN IconContext(icon, NoImg, Or0(Or0(icon.width, 100), icon.width),
                           Or0(Or0(icon.height, 100), icon.height), resp.body.text)
          ELSE fallback
     ELSE IF DecodesAsImage(resp.body)
          THEN IconContext(icon, [present |-> TRUE, size |-> resp.body.size],
                           Or0(resp.body.size[1], icon.width),
                           Or0(resp.body.size[2], icon.height), "")
          ELSE fallback

CalculateScoreWithRulesZeroOnFailure(rs, icon, resp) ==
  LET fallback == ScoreResult(FALSE, 0, <<>>)
  IN IF resp.status = "error" THEN fallback
     ELSE IF Contains(resp.content_type, SVG)
     THEN IF DecodesAsText(resp.body)
          THEN calculate_score(rs, IconContext(icon, NoImg, Or0(icon.width, 100),
                                               Or0(icon.height, 100), resp.body.text))
          ELSE fallback
     ELSE IF DecodesAsImage(resp.body)
          THEN LET img == [present |-> TRUE, size |-> resp.body.size]
               IN calculate_score(rs, IconContext(icon, img,
                                   Or0(img.size[1], icon.width),
                                   Or0(img.size[2], icon.height), ""))
          ELSE fallback

\* _calculate_score_with_rules: the result of calculate_score on the context
\* built from the icon and the response to the scoring fetch.
CalculateScoreWithRules(rs, icon, resp) == calculate_score(rs, ScoringContext(icon, resp))

DedupFirstWriteWins(icons) ==
  LET RECURSIVE Build(_, _)
      Build(d, k) ==
        IF k > Len(icons) THEN d
        ELSE IF \E j \in 1..Len(d) : d[j].url = icons[k].url
             THEN Build(d, k + 1)
             ELSE Build(Append(d, icons[k]), k + 1)
  IN Build(<<>>, 1)

DedupKeyedOnUrlAndWidth(icons) ==
  LET RECURSIVE Build(_, _)
      Build(d, k) ==
        IF k > Len(icons) THEN d
        ELSE IF \E j \in 1..Len(d) : d[j].url = icons[k].url /\ d[j].width = icons[k].width
             THEN Build([j \in 1..Len(d) |->
                           IF d[j].url = icons[k].url /\ d[j].width = icons[k].width
                           THEN icons[k] ELSE d[j]], k + 1)
             ELSE Build(Append(d, icons[k]), k + 1)
  IN Build(<<>>, 1)

\* list({icon.url: icon for icon in all_icons}.values()): a dict keeps its
\* keys in first-insertion order and the last value written for each key.
Dedup(icons) ==
  LET RECURSIVE Build(_, _)
      Build(d, k) ==
        IF k > Len(icons) THEN d
        ELSE IF \E j \in 1..Len(d) : d[j].url = icons[k].url
             THEN Build([j \in 1..Len(d) |->
                           IF d[j].url = icons[k].url THEN icons[k] ELSE d[j]], k + 1)
             ELSE Build(Append(d, icons[k]), k + 1)
  IN Build(<<>>, 1)

\* Position at which x goes into the descending list out so that it follows
\* every element whose score is at least its own.
InsertAt(out, x) ==
  1 + Cardinality({j \in 1..Len(out) : out[j].score >= x.score})

SortedUnstable(icons) ==
  LET RECURSIVE Build(_, _)
      Build(out, k) ==
        IF k > Len(icons) THEN out
        ELSE LET at == 1 + Cardinality({j \in 1..Len(out) : out[j].score > icons[k].score})
             IN Build(SubSeq(out, 1, at - 1) \o <<icons[k]>> \o SubSeq(out, at, Len(out)), k + 1)
  IN Build(<<>>, 1)

\* sorted(scored_icons, key=lambda i: i.score, reverse=True): a stable sort,
\* elements with equal keys keep their original order also with reverse=True.
SortedByScore(icons) ==
  LET RECURSIVE Build(_, _)
      Build(out, k) ==
        IF k > Len(icons) THEN out
        ELSE LET at == InsertAt(out, icons[k])
             IN Build(SubSeq(out, 1, at - 1) \o <<icons[k]>> \o SubSeq(out, at, Len(out)), k + 1)
  IN Build(<<>>, 1)

UrlsAboveZero(icons) ==
  LET kept == SelectSeq(icons, LAMBDA icon : icon.score > 0)
  IN [k \in 1..Len(kept) |-> kept[k].url]

\* [icon.url for icon in sorted_icons]
Urls(icons) == [k \in 1..Len(icons) |-> icons[k].url]

\* What fetch_best_logo and fetch_and_validate hand back.
NoLogo == [kind |-> "none", text |-> "", size |-> <<0, 0>>]
SvgLogo(t) == [kind |-> "svg", text |-> t, size |-> <<0, 0>>]
ImageLogo(size) == [kind |-> "image", text |-> "", size |-> size]

\* What one fetch_and_validate call did: the logo it returned (NoLogo for
\* None) and whether it called Image.open on the way.
Validated(logo, opened_image) == [logo |-> logo, opened_image |-> opened_image]

fetch_and_validate_discarding_images(resp) ==
  IF ~StatusOk(resp) THEN Validated(NoLogo, FALSE)
  ELSE IF IsValidType(resp.content_type)
  THEN IF Contains(resp.content_type, SVG)
       THEN IF DecodesAsText(resp.body)
            THEN Validated(SvgLogo(resp.body.text), FALSE)
            ELSE Validated(NoLogo, FALSE)
       ELSE Validated(NoLogo, TRUE)
  ELSE Validated(NoLogo, FALSE)

fetch_and_validate_any_type(resp) ==
  IF ~StatusOk(resp) THEN Validated(NoLogo, FALSE)
  ELSE IF Contains(resp.content_type, SVG)
       THEN IF DecodesAsText(resp.body)
            THEN Validated(SvgLogo(resp.body.text), FALSE)
            ELSE Validated(NoLogo, FALSE)
       ELSE IF DecodesAsImage(resp.body)
            THEN Validated(ImageLogo(resp.body.size), TRUE)
            ELSE Validated(NoLogo, TRUE)

fetch_and_validate_open_first(resp) ==
  IF ~StatusOk(resp) THEN Validated(NoLogo, FALSE)
  ELSE IF IsValidType(resp.content_type)
  THEN IF DecodesAsImage(resp.body)
       THEN Validated(ImageLogo(resp.body.size), TRUE)
       ELSE Validated(NoLogo, TRUE)
  ELSE Validated(NoLogo, FALSE)

fetch_and_validate_skip_svg(resp) ==
  IF ~StatusOk(resp) THEN Validated(NoLogo, FALSE)
  ELSE IF IsValidType(resp.content_type)
  THEN IF Contains(resp.content_type, SVG)
       THEN Validated(NoLogo, FALSE)
       ELSE IF DecodesAsImage(resp.body)
            THEN Validated(ImageLogo(resp.body.size), TRUE)
            ELSE Validated(NoLogo, TRUE)
  ELSE Validated(NoLogo, FALSE)

\* fetch_and_validate, decided by the response to client.get(logo_url): a
\* raised or non-2xx fetch, an unaccepted content type and a failed decode
\* all give None.
fetch_and_validate(resp) ==
  IF ~StatusOk(resp) THEN Validated(NoLogo, FALSE)
  ELSE IF IsValidType(resp.content_type)
  THEN IF Contains(resp.content_type, SVG)
       THEN IF DecodesAsText(resp.body)
            THEN Validated(SvgLogo(resp.body.text), FALSE)
            ELSE Validated(NoLogo, FALSE)
       ELSE IF DecodesAsImage(resp.body)
            THEN Validated(ImageLogo(resp.body.size), TRUE)
            ELSE Validated(NoLogo, TRUE)
  ELSE Validated(NoLogo, FALSE)

FalsyOnlyNone(logo) == logo.kind = "none"

\* "if not best_logo": None and the empty string are falsy.
Falsy(logo) == logo.kind = "none" \/ (logo.kind = "svg" /\ logo.text = "")

OutputFormats == {"PNG", "JPG"}

Pending == [kind |-> "pending", format |-> "", text |-> "", size |-> <<0, 0>>]
None == [kind |-> "none", format |-> "", text |-> "", size |-> <<0, 0>>]

\* process_image without resize: an SVG string is returned as its UTF-8
\* bytes whatever the format asked for, an image is saved in that format
\* ("JPG" is saved as "JPEG").
process_image(image, output_format) ==
  IF image.kind = "svg"
  THEN [kind |-> "bytes", format |-> "SVG", text |-> image.text, size |-> <<0, 0>>]
  ELSE [kind |-> "bytes",
        format |-> IF output_format = "JPG" THEN "JPEG" ELSE output_format,
        text |-> "", size |-> image.size]

\* The weights the hunter's engine was loaded with.
HuntValues ==
  [f \in RuleFuncs |->
     CASE f = "extremely_wide_aspect_ratio" -> -3
       [] f = "logo_in_alt_text" -> 3
       [] f = "deep_dom_nesting" -> -2]

\* ------------------------------------------------------------------ engine spec
HuntIdle ==
  /\ pc = "idle" /\ all_icons = <<>> /\ fb = 1 /\ unique_icons = <<>>
  /\ scored_icons = <<>> /\ sorted_icons = <<>> /\ logo_urls = <<>>
  /\ attempts = <<>> /\ opened = {} /\ fetch_calls = 0
  /\ best_logo = NoLogo /\ output = Pending

\* No helper has been called on its own.
CallIdle == call = <<>>

\* find_logo_urls has fetched nothing yet.
FindIdle == root_page = <<>> /\ heads = <<>> /\ fetched = <<>> /\ requests = <<>>

\* No concurrent get_customer_logo calls are modelled.
TasksIdle ==
  /\ logger = "module" /\ scoring_engine = <<>> /\ engines = <<>>
  /\ tasks = <<>>

InitScore ==
  /\ \E values \in [RuleFuncs -> Weights] : rules = LoadAllRules(values)
  /\ result = <<>>
  /\ probe = <<>>
  /\ HuntIdle /\ CallIdle /\ FindIdle /\ TasksIdle

\* One call scoring_engine.calculate_score(...) with context ctx. The call
\* leaves the engine as it is; the observer may keep the call in probe (it
\* keeps only calls on which no rule throws, to bound the history).
CalculateScore(ctx) ==
  /\ result' = <<[ctx |-> ctx, out |-> calculate_score(rules, ctx)]>>
  /\ probe' \in (IF ctx.faults = {} THEN {probe, result'} ELSE {probe})
  /\ UNCHANGED <<rules, hunt_vars, rest_vars>>

NextScore == \E ctx \in ScoreContexts : CalculateScore(ctx)

SpecScore == InitScore /\ [][NextScore]_vars

\* ------------------------------------------------------------------ hunter spec
\* get_customer_logo(domain) has been called and find_logo_urls is about to
\* fetch the root page.
InitHunt ==
  /\ rules = LoadAllRules(HuntValues)
  /\ result = <<>> /\ probe = <<>>
  /\ pc = "root" /\ all_icons = <<>> /\ fb = 1 /\ unique_icons = <<>>
  /\ scored_icons = <<>> /\ sorted_icons = <<>> /\ logo_urls = <<>>
  /\ attempts = <<>> /\ opened = {} /\ fetch_calls = 0
  /\ best_logo = NoLogo /\ output = Pending
  /\ CallIdle /\ FindIdle /\ TasksIdle

\* The end of find_logo_urls once every unique icon is scored: sort, return.
Rank(scored) ==
  /\ sorted_icons' = SortedByScore(scored)
  /\ logo_urls' = Urls(SortedByScore(scored))
  /\ pc' = "found"

\* find_logo_urls: the root page fetch and _find_icons_from_html. A failed
\* fetch is logged and leaves all_icons empty.
FetchRoot ==
  /\ pc = "root"
  /\ \E html_icons \in SeqsUpTo(HtmlIcons, MaxIcons) : all_icons' = html_icons
  /\ pc' = "fallback"
  /\ UNCHANGED <<rest_vars, engine_vars, fb, unique_icons, scored_icons, sorted_icons,
                 logo_urls, attempts, opened, fetch_calls, best_logo, output>>

\* After the last fallback probe: deduplicate, and rank at once when there is
\* nothing to score.
AfterFallback(icons) ==
  /\ unique_icons' = Dedup(icons)
  /\ IF Dedup(icons) = <<>>
     THEN Rank(<<>>)
     ELSE pc' = "scoring" /\ UNCHANGED <<sorted_icons, logo_urls>>

\* _get_fallback_icons: one HEAD probe. hit is <<>> when the probe raised or
\* did not answer 200, and <<final_url>> when it answered 200.
ProbeFallback ==
  /\ pc = "fallback"
  /\ LET path == FALLBACK_LOCATIONS[fb]
     IN \E hit \in {<<>>} \cup
                   (IF Len(all_icons) < MaxIcons
                    THEN {<<UrlJoin(path)>>, <<LogoUrl>>} ELSE {}) :
          LET icons == IF hit = <<>> THEN all_icons
                       ELSE Append(all_icons, FallbackIcon(path, hit[1]))
          IN /\ all_icons' = icons
             /\ IF fb < Len(FALLBACK_LOCATIONS)
                THEN /\ fb' = fb + 1
                     /\ UNCHANGED <<pc, unique_icons, sorted_icons, logo_urls>>
                ELSE /\ fb' = fb
                     /\ AfterFallback(icons)
  /\ UNCHANGED <<rest_vars, engine_vars, scored_icons, attempts, opened, fetch_calls,
                 best_logo, output>>

\* find_logo_urls: the scoring fetch of the next unique icon; after the last
\* one the list is sorted and returned.
ScoreIcon ==
  /\ pc = "scoring"
  /\ \E resp \in ScoringResponses :
       LET icon == unique_icons[Len(scored_icons) + 1]
           out == CalculateScoreWithRules(rules, icon, resp)
           scored_icon == Icon(icon.url, icon.width, icon.height, icon.format,
                               icon.alt_text, icon.css_classes, icon.element_id,
                               icon.parent_classes, out.total_score, out.rule_details)
           scored == Append(scored_icons, scored_icon)
       IN /\ scored_icons' = scored
          /\ IF Len(scored) = Len(unique_icons)
             THEN Rank(scored)
             ELSE UNCHANGED <<pc, sorted_icons, logo_urls>>
  /\ UNCHANGED <<rest_vars, engine_vars, all_icons, fb, unique_icons, attempts, opened,
                 fetch_calls, best_logo, output>>

\* get_customer_logo after find_logo_urls returned: no URLs gives None,
\* otherwise fetch_best_logo is called. The locals of find_logo_urls are gone.
StartFetch ==
  /\ pc = "found"
  /\ IF logo_urls = <<>>
     THEN pc' = "done" /\ output' = None /\ UNCHANGED fetch_calls
     ELSE pc' = "fetching" /\ fetch_calls' = fetch_calls + 1 /\ UNCHANGED output
  /\ all_icons' = <<>> /\ unique_icons' = <<>> /\ scored_icons' = <<>>
  /\ sorted_icons' = <<>>
  /\ UNCHANGED <<rest_vars, engine_vars, fb, logo_urls, attempts, opened, best_logo>>

\* get_customer_logo once fetch_best_logo returned logo.
Finish(logo) ==
  /\ best_logo' = logo
  /\ pc' = "done"
  /\ IF Falsy(logo)
     THEN output' = None
     ELSE \E output_format \in OutputFormats : output' = process_image(logo, output_format)

\* fetch_best_logo: one turn of its loop over logo_urls.
TryCandidate ==
  /\ pc = "fetching"
  /\ \E resp \in FetchResponses :
       LET i == Len(attempts) + 1
           validated == fetch_and_validate(resp)
       IN /\ attempts' = Append(attempts, [url |-> logo_urls[i], resp |-> resp])
          /\ opened' = IF validated.opened_image THEN opened \cup {i} ELSE opened
          /\ IF validated.logo # NoLogo THEN Finish(validated.logo)
             ELSE IF i = Len(logo_urls) THEN Finish(NoLogo)
             ELSE UNCHANGED <<pc, best_logo, output>>
  /\ UNCHANGED <<rest_vars, engine_vars, all_icons, fb, unique_icons, scored_icons,
                 sorted_icons, logo_urls, fetch_calls>>

NextHunt == FetchRoot \/ ProbeFallback \/ ScoreIcon \/ StartFetch \/ TryCandidate

SpecHunt == InitHunt /\ [][NextHunt]_vars

\* ------------------------------------------------------------------ engine claims
HasEntry(details, label) == \E k \in 1..Len(details) : details[k][1] = label

\* What the rule labelled label added to the score, read off rule_details.
ContributionOf(details, label) ==
  IF HasEntry(details, label)
  THEN details[CHOOSE k \in 1..Len(details) : details[k][1] = label][2]
  ELSE 0

RECURSIVE SumContributions(_)
SumContributions(details) ==
  IF details = <<>> THEN 0
  ELSE details[1][2] + SumContributions(Tail(details))

Called == result # <<>>
LastCtx == result[1].ctx
LastOut == result[1].out

\* C1 as stated: a rule of weight w returning true contributes w and a rule
\* returning a number v contributes round(w * v).
C1_ContributionIsRounded ==
  Called =>
    \A i \in 1..Len(rules) :
      LET a == RuleCall(rules[i].func, LastCtx)
          c == ContributionOf(LastOut.rule_details, rules[i].label)
      IN /\ (a.kind = "bool" /\ a.b) => c = rules[i].value
         /\ a.kind = "num" => c = Round(rules[i].value * a.q, 4)

\* C1 amended: a rule of weight w returning true contributes w and a rule
\* returning a number v contributes int(w * v), the product truncated toward
\* zero (weight 3 and value 0.5 give 1, weight -3 and value 0.5 give -1).
C1_ContributionIsTruncated ==
  Called =>
    \A i \in 1..Len(rules) :
      LET a == RuleCall(rules[i].func, LastCtx)
          c == ContributionOf(LastOut.rule_details, rules[i].label)
      IN /\ (a.kind = "bool" /\ a.b) => c = rules[i].value
         /\ a.kind = "num" => c = IntTrunc(rules[i].value * a.q, 4)

C1_Witness ==
  /\ Called
  /\ \E i, j, k \in 1..Len(rules) :
       /\ rules[i].value = 3 /\ RuleCall(rules[i].func, LastCtx) = RNum(2)
       /\ ContributionOf(LastOut.rule_details, rules[i].label) = 1
       /\ rules[j].value = -3 /\ RuleCall(rules[j].func, LastCtx) = RNum(2)
       /\ ContributionOf(LastOut.rule_details, rules[j].label) = -1
       /\ rules[k].value = 3 /\ RuleCall(rules[k].func, LastCtx) = RBool(TRUE)
       /\ ContributionOf(LastOut.rule_details, rules[k].label) = 3

\* C2: the total returned by calculate_score is the sum of the contributions
\* in the returned list, every listed contribution is non-zero, and the total
\* is not clamped: it is the (possibly negative) sum over all rules.
C2_TotalIsSumOfNonZero ==
  Called =>
    /\ LastOut.total_score = SumContributions(LastOut.rule_details)
    /\ \A k \in 1..Len(LastOut.rule_details) : LastOut.rule_details[k][2] # 0
    /\ (SumContributions(LastOut.rule_details) < 0 => LastOut.total_score < 0)

C2_Witness ==
  /\ Called
  /\ Len(LastOut.rule_details) = 3
  /\ LastOut.total_score < 0
  /\ \E k \in 1..3 : LastOut.rule_details[k][2] > 0

\* C3: calculate_score never raises; a rule that throws contributes 0 and
\* has no entry in the list, and every other rule contributes what it
\* contributes on the same context when no rule throws.
C3_ThrowingRuleIsIsolated ==
  Called =>
    LET clean == calculate_score(rules, [LastCtx EXCEPT !.faults = {}])
    IN /\ ~LastOut.raised
       /\ \A i \in 1..Len(rules) :
            IF rules[i].func \in LastCtx.faults
            THEN ~HasEntry(LastOut.rule_details, rules[i].label)
            ELSE ContributionOf(LastOut.rule_details, rules[i].label)
                   = ContributionOf(clean.rule_details, rules[i].label)

C3_Witness ==
  /\ Called
  /\ LastCtx.faults = {"extremely_wide_aspect_ratio", "deep_dom_nesting"}
  /\ Len(LastOut.rule_details) = 1
  /\ LastOut.total_score # 0

UrlSet(icons) == {icons[k].url : k \in 1..Len(icons)}
PosOf(icons, url) == CHOOSE k \in 1..Len(icons) : icons[k].url = url

\* C5: the list find_logo_urls / find_logo_candidates returns is the stable
\* descending sort by score of the deduplicated sequence: the same candidates,
\* scores non-increasing, equal scores in extraction-then-dedup order.
C5_RankingIsStableDescending ==
  pc = "found" =>
    /\ logo_urls = Urls(sorted_icons)
    /\ Urls(scored_icons) = Urls(unique_icons)
    /\ Len(sorted_icons) = Len(scored_icons)
    /\ \A k \in 1..Len(scored_icons) : \E j \in 1..Len(sorted_icons) :
         sorted_icons[j] = scored_icons[k]
    /\ \A i, j \in 1..Len(sorted_icons) :
         i < j => /\ sorted_icons[i].score >= sorted_icons[j].score
                  /\ sorted_icons[i].score = sorted_icons[j].score
                       => PosOf(unique_icons, sorted_icons[i].url)
                            < PosOf(unique_icons, sorted_icons[j].url)

C5_Witness ==
  /\ pc = "found"
  /\ Len(sorted_icons) = 3
  /\ sorted_icons[1].score > sorted_icons[2].score
  /\ sorted_icons[2].score = sorted_icons[3].score
  /\ sorted_icons[1].url = unique_icons[3].url
  /\ sorted_icons[2].url = unique_icons[1].url

\* C6: after deduplication every URL of the pre-dedup sequence occurs exactly
\* once, and no other URL occurs.
C6_EveryUrlExactlyOnce ==
  pc \in {"scoring", "found"} =>
    /\ UrlSet(unique_icons) = UrlSet(all_icons)
    /\ \A u \in UrlSet(all_icons) :
         Cardinality({k \in 1..Len(unique_icons) : unique_icons[k].url = u}) = 1

C6_Witness ==
  /\ pc = "scoring"
  /\ \E i, j \in 1..Len(all_icons) :
       /\ i < j
       /\ all_icons[i].url = all_icons[j].url
       /\ all_icons[i].width # all_icons[j].width
  /\ Len(unique_icons) = 2
  /\ Len(all_icons) = 3

AcceptedTypes == {CT_PNG, CT_SVG_XML, CT_WEBP, CT_X_ICON, CT_JPEG, CT_JPG, CT_GIF}

\* The fetch succeeded and its content type is one of the accepted ones.
FetchedAccepted(resp) ==
  resp.status = "200" /\ \E t \in AcceptedTypes : Contains(resp.content_type, t)

IsSvgType(resp) == Contains(resp.content_type, SVG)

\* ... and its body decodes: as UTF-8 text for SVG, as a raster image otherwise.
Usable(resp) ==
  /\ FetchedAccepted(resp)
  /\ IF IsSvgType(resp) THEN resp.body.kind = "text" ELSE resp.body.kind = "image"

ContentOf(resp) ==
  IF IsSvgType(resp) THEN SvgLogo(resp.body.text) ELSE ImageLogo(resp.body.size)

Returned == pc = "done" /\ fetch_calls = 1

\* C7 as stated: fetch_best_logo returns the content of the first URL whose
\* fetch succeeds with an accepted content type.
C7_FirstAcceptedWins ==
  Returned =>
    \A k \in 1..Len(attempts) :
      FetchedAccepted(attempts[k].resp) =>
        k = Len(attempts) /\ best_logo = ContentOf(attempts[k].resp)

\* C7 amended: fetch_best_logo tries the URLs in the given order and returns
\* the content of the first one whose fetch succeeds with an accepted content
\* type and whose body decodes; no later URL is tried; None when there is none.
C7_FirstUsableWins ==
  Returned =>
    /\ Len(attempts) <= Len(logo_urls)
    /\ \A k \in 1..Len(attempts) : attempts[k].url = logo_urls[k]
    /\ \A k \in 1..Len(attempts) :
         Usable(attempts[k].resp) =>
           k = Len(attempts) /\ best_logo = ContentOf(attempts[k].resp)
    /\ (\A k \in 1..Len(attempts) : ~Usable(attempts[k].resp)) =>
         best_logo = NoLogo /\ Len(attempts) = Len(logo_urls)

C7_Witness ==
  /\ Returned
  /\ Len(logo_urls) = 3 /\ Len(attempts) = 2
  /\ FetchedAccepted(attempts[1].resp) /\ ~Usable(attempts[1].resp)
  /\ Usable(attempts[2].resp)
  /\ best_logo = ImageLogo(<<100, 100>>)

\* C8 as stated: a response whose content type contains "svg" makes the
\* decoded text the result at once, and is never raster decoded.
C8_SvgTypeReturnsText ==
  \A k \in 1..Len(attempts) :
    IsSvgType(attempts[k].resp) =>
      /\ k \notin opened
      /\ pc = "done" /\ k = Len(attempts)
      /\ best_logo = SvgLogo(attempts[k].resp.body.text)

\* C8 amended: a response whose content type contains "svg" is never raster
\* decoded; when it is a 2xx response of an accepted type with a UTF-8 body,
\* its decoded text is the result at once.
C8_SvgNeverRasterDecoded ==
  \A k \in 1..Len(attempts) :
    IsSvgType(attempts[k].resp) =>
      /\ k \notin opened
      /\ Usable(attempts[k].resp) =>
           /\ pc = "done" /\ k = Len(attempts)
           /\ best_logo = SvgLogo(attempts[k].resp.body.text)

C8_Witness ==
  /\ pc = "done"
  /\ Len(attempts) = 2
  /\ 1 \in opened
  /\ attempts[2].resp.content_type = CT_SVG_XML
  /\ best_logo = SvgLogo("<svg/>")
  /\ opened = {1}

OnlyUrlIsSvg ==
  /\ Returned
  /\ Len(logo_urls) = 1
  /\ attempts[1].resp.status = "200"
  /\ attempts[1].resp.content_type = CT_SVG_XML

Finished == pc = "done"

\* C10 as stated: None only when the URL list is empty or no fetched
\* candidate passes content-type validation; bytes whenever one does; with an
\* empty list fetch_best_logo is not called.
C10_NoneOnlyWithoutAcceptedType ==
  Finished =>
    /\ output = None =>
         \/ logo_urls = <<>>
         \/ \A k \in 1..Len(attempts) : ~FetchedAccepted(attempts[k].resp)
    /\ (\E k \in 1..Len(attempts) : FetchedAccepted(attempts[k].resp))
         => output.kind = "bytes"
    /\ logo_urls = <<>> => fetch_calls = 0

\* C10 amended: None exactly when the URL list is empty, or no fetched
\* candidate has an accepted content type and a body that decodes, or the
\* first that does is an empty SVG document; otherwise the encoded content of
\* that candidate; with an empty list fetch_best_logo is not called.
C10_NoneOnlyWithoutUsableLogo ==
  Finished =>
    /\ output = None <=>
         \/ logo_urls = <<>>
         \/ \A k \in 1..Len(attempts) : ~Usable(attempts[k].resp)
         \/ \E k \in 1..Len(attempts) :
              Usable(attempts[k].resp) /\ ContentOf(attempts[k].resp) = SvgLogo("")
    /\ output # None =>
         /\ output.kind = "bytes"
         /\ \E k \in 1..Len(attempts) :
              /\ Usable(attempts[k].resp)
              /\ output.text = ContentOf(attempts[k].resp).text
              /\ output.size = ContentOf(attempts[k].resp).size
    /\ logo_urls = <<>> => fetch_calls = 0 /\ attempts = <<>>

C10_Witness ==
  /\ Finished
  /\ output = None
  /\ Len(attempts) = 2
  /\ best_logo = SvgLogo("")
  /\ FetchedAccepted(attempts[1].resp)

\* ------------------------------------------------------------------ more text
\* s.startswith(prefix)
StartsWith(s, prefix) ==
  Len(s) >= Len(prefix) /\ SubSeq(s, 1, Len(prefix)) = prefix

\* s.split(sep), and re.split("[...]", s), for separators that are one
\* character long: the pieces between separators, empty pieces included.
SplitOn(s, seps) ==
  LET RECURSIVE Pieces(_, _, _)
      Pieces(done, piece, i) ==
        IF i > Len(s) THEN Append(done, piece)
        ELSE IF s[i] \in seps THEN Pieces(Append(done, piece), <<>>, i + 1)
        ELSE Pieces(done, Append(piece, s[i]), i + 1)
  IN Pieces(<<>>, <<>>, 1)

\* sep.join(pieces)
RECURSIVE Join(_, _)
Join(pieces, sep) ==
  IF pieces = <<>> THEN <<>>
  ELSE IF Len(pieces) = 1 THEN pieces[1]
  ELSE pieces[1] \o sep \o Join(Tail(pieces), sep)

WHITESPACE == {" ", "\t", "\n"}

\* s.strip()
Strip(s) ==
  LET Trimmed(kept) ==
        IF kept = {} THEN <<>>
        ELSE SubSeq(s, CHOOSE i \in kept : \A j \in kept : i <= j,
                       CHOOSE i \in kept : \A j \in kept : i >= j)
  IN Trimmed({i \in 1..Len(s) : s[i] \notin WHITESPACE})

DIGITS == <<"0", "1", "2", "3", "4", "5", "6", "7", "8", "9">>

\* c.isdigit(), and \d of a regular expression, on ASCII text
IsDigit(c) == \E d \in 1..Len(DIGITS) : DIGITS[d] = c

DigitValue(c) == (CHOOSE d \in 1..Len(DIGITS) : DIGITS[d] = c) - 1

\* int(ds) for a non-empty text of digits
RECURSIVE DecimalValue(_)
DecimalValue(ds) ==
  IF ds = <<>> THEN 0
  ELSE 10 * DecimalValue(SubSeq(ds, 1, Len(ds) - 1)) + DigitValue(ds[Len(ds)])

\* str(n) for n >= 0
RECURSIVE DecimalText(_)
DecimalText(n) ==
  IF n < 10 THEN <<DIGITS[n + 1]>>
  ELSE Append(DecimalText(n \div 10), DIGITS[(n % 10) + 1])

\* The character U+00D7, the multiplication sign.
MULT == "U+00D7"

ANY == <<"a", "n", "y">>

\* ------------------------------------------------------------------ elements
\* An element of a parsed page: its tag, the position of its parent element
\* in the page (0 under <body> or <head>), and its attributes, an attribute
\* that is absent being the empty text.
NoAttributes ==
  [tag |-> <<>>, parent |-> 0, rel |-> <<>>, type |-> <<>>, property |-> <<>>,
   name |-> <<>>, href |-> <<>>, content |-> <<>>, sizes |-> <<>>,
   src |-> <<>>, alt |-> <<>>, class |-> <<>>, id |-> <<>>,
   width |-> <<>>, height |-> <<>>]

\* ------------------------------------------------------------------ dimensions
\* int("".join(c for c in s if c.isdigit())): <<n>>, or <<>> for ValueError
IntOfDigitsIn(s) ==
  LET ds == SelectSeq(s, IsDigit)
  IN IF ds = <<>> THEN <<>> ELSE <<DecimalValue(ds)>>

\* size_key of _extract_dimensions: the area a token of sizes stands for
size_key(size_str) ==
  LET Area(match) ==
        IF Len(match) = 2
        THEN LET Product(w, h) == IF w = <<>> \/ h = <<>> THEN 0 ELSE w[1] * h[1]
             IN Product(IntOfDigitsIn(match[1]), IntOfDigitsIn(match[2]))
        ELSE 0
  IN Area(SplitOn(size_str, {"x", MULT}))

SortedBySizeKeyAscending(size_list) ==
  LET RECURSIVE Build(_, _)
      Build(out, k) ==
        IF k > Len(size_list) THEN out
        ELSE LET at == 1 + Cardinality({j \in 1..Len(out) :
                                          size_key(out[j]) <= size_key(size_list[k])})
             IN Build(SubSeq(out, 1, at - 1) \o <<size_list[k]>> \o SubSeq(out, at, Len(out)), k + 1)
  IN Build(<<>>, 1)

\* size_list.sort(key=size_key, reverse=True): stable, largest area first
SortedBySizeKey(size_list) ==
  LET RECURSIVE Build(_, _)
      Build(out, k) ==
        IF k > Len(size_list) THEN out
        ELSE LET at == 1 + Cardinality({j \in 1..Len(out) :
                                          size_key(out[j]) >= size_key(size_list[k])})
             IN Build(SubSeq(out, 1, at - 1) \o <<size_list[k]>> \o SubSeq(out, at, Len(out)), k + 1)
  IN Build(<<>>, 1)

\* The n characters of s from position from on exist and are digits.
AllDigits(s, from, n) ==
  from + n - 1 <= Len(s) /\ \A k \in from..(from + n - 1) : IsDigit(s[k])

\* The greatest and the least member of a non-empty set of numbers.
Greatest(numbers) == CHOOSE n \in numbers : \A m \in numbers : m <= n
Least(numbers) == CHOOSE n \in numbers : \A m \in numbers : n <= m

\* SIZE_REGEX, \d{2,4}x\d{2,4} with IGNORECASE, at position i of s: the
\* numbers of digits the first \d{2,4} can take with the rest matching.
SizeRegexWidths(s, i) ==
  {lw \in 2..4 : /\ AllDigits(s, i, lw)
                 /\ i + lw <= Len(s)
                 /\ s[i + lw] \in {"x", "X"}
                 /\ AllDigits(s, i + lw + 1, 2)}

\* The groups of the match at i with lw and lh digits.
SizeRegexGroups(s, i, lw, lh) ==
  <<DecimalValue(SubSeq(s, i, i + lw - 1)),
    DecimalValue(SubSeq(s, i + lw + 1, i + lw + lh))>>

\* SIZE_REGEX matched at position i of s: <<width, height>>, or <<>> when it
\* does not match there. Each \d{2,4} takes as many digits as lets the rest
\* of the pattern match.
SizeRegexMatchAt(s, i) ==
  IF SizeRegexWidths(s, i) = {} THEN <<>>
  ELSE LET Groups(lw) ==
             SizeRegexGroups(s, i, lw,
                             Greatest({lh \in 2..4 : AllDigits(s, i + lw + 1, lh)}))
       IN Groups(Greatest(SizeRegexWidths(s, i)))

\* The match that starts first among starts, or <<>>.
SizeRegexFirst(s, starts) ==
  IF starts = {} THEN <<>> ELSE SizeRegexMatchAt(s, Least(starts))

\* SIZE_REGEX.search(s): the match that starts first, or <<>>
SizeRegexSearch(s) ==
  SizeRegexFirst(s, {i \in 1..Len(s) : SizeRegexMatchAt(s, i) # <<>>})

\* "Extract from filename if no sizes attribute": found is the result of
\* SIZE_REGEX.search(href), or <<>> when there is no href to search.
DimensionsFromHref(found) == IF found # <<>> THEN found ELSE <<0, 0>>

\* The try block of the sizes branch: width and height of the first token of
\* the sorted size_list split at "x", else what the filename gives.
DimensionsFromSizes(match, from_href) ==
  IF Len(match) = 2
  THEN LET Pair(width, height) ==
             IF width = <<>> \/ height = <<>> THEN from_href
             ELSE <<width[1], height[1]>>
       IN Pair(IntOfDigitsIn(match[1]), IntOfDigitsIn(match[2]))
  ELSE from_href

\* _extract_dimensions(element), href being element.attributes.get("href")
\* or the content attribute.
ExtractDimensionsWith(element, href) ==
  LET Dims(from_href) ==
        IF element.sizes # <<>> /\ Lower(element.sizes) # ANY
        THEN DimensionsFromSizes(
               SplitOn(SortedBySizeKey(SplitOn(element.sizes, {" "}))[1], {"x", MULT}),
               from_href)
        ELSE from_href
  IN Dims(DimensionsFromHref(IF href # <<>> THEN SizeRegexSearch(href) ELSE <<>>))

\* _extract_dimensions(element): <<width, height>>
extract_dimensions(element) ==
  ExtractDimensionsWith(element,
    IF element.href # <<>> THEN element.href ELSE element.content)

\* ------------------------------------------------------------------ helper calls
MaxTokens == 3

\* Areas a sizes attribute may list.
SizeDims == {<<192, 192>>, <<96, 96>>, <<48, 48>>, <<32, 8>>, <<16, 16>>}

\* The token "WxH" of a sizes attribute.
SizeToken(d) == DecimalText(d[1]) \o <<"x">> \o DecimalText(d[2])

\* Tokens of a sizes attribute: well-formed ones, each with the <<W, H>> it
\* was written from, and ones that are not of the form WxH.
SizeTokens ==
  {[text |-> SizeToken(d), wxh |-> <<d>>] : d \in SizeDims}
    \cup {[text |-> t, wxh |-> <<>>] :
            t \in {<<"a", "n", "y">>, <<"A", "N", "Y">>, <<"1", "6", "X", "1", "6">>, <<"3", "2", "x">>, <<"l", "a", "r", "g", "e">>}}

\* href and content of the elements _extract_dimensions is called on.
SizedLinks ==
  { [href |-> <<"/", "f", "a", "v", "i", "c", "o", "n", "-", "2", "5", "6", "x", "2", "5", "6", ".", "p", "n", "g">>, content |-> <<>>],
    [href |-> <<"/", "f", "a", "v", "i", "c", "o", "n", ".", "p", "n", "g">>, content |-> <<>>],
    [href |-> <<>>, content |-> <<"/", "o", "g", "-", "1", "2", "0", "0", "x", "6", "3", "0", ".", "p", "n", "g">>],
    [href |-> <<"/", "i", "c", "o", "n", "-", "1", "6", "x", "1", "6", "-", "3", "2", "x", "3", "2", ".", "p", "n", "g">>, content |-> <<>>],
    [href |-> <<"/", "i", "1", "2", "3", "4", "5", "x", "6", "7", "8", "@", "2", "x", ".", "p", "n", "g">>, content |-> <<"/", "c", "-", "6", "4", "x", "6", "4", ".", "p", "n", "g">>],
    [href |-> <<"/", "a", "1", "x", "2", "-", "3", "2", "X", "3", "2", ".", "p", "n", "g">>, content |-> <<>>] }

\* The calls _extract_dimensions(element) considered, not made yet.
ExtractDimensionsCalls ==
  {[op |-> "_extract_dimensions", done |-> FALSE, tokens |-> tokens,
    element |-> [NoAttributes EXCEPT
                   !.tag = <<"l", "i", "n", "k">>,
                   !.sizes = Join([k \in 1..Len(tokens) |-> tokens[k].text], <<" ">>),
                   !.href = link.href, !.content = link.content],
    out |-> <<0, 0>>] :
     tokens \in SeqsUpTo(SizeTokens, MaxTokens), link \in SizedLinks}

\* Every other part of the model stands still while a helper is called.
UnitsFrame ==
  /\ rules = LoadAllRules(HuntValues)
  /\ result = <<>> /\ probe = <<>>
  /\ HuntIdle /\ FindIdle /\ TasksIdle

\* The call made next.
Awaits(op) == call[1].op = op /\ ~call[1].done

\* One call _extract_dimensions(element).
ExtractDimensions ==
  /\ Awaits("_extract_dimensions")
  /\ call' = <<[call[1] EXCEPT !.done = TRUE,
                                !.out = extract_dimensions(call[1].element)]>>
  /\ UNCHANGED <<engine_vars, hunt_vars, find_vars, task_vars>>

\* ------------------------------------------------------------------ validation
\* What a helper hands back: a value, or an exception that leaves it.
Gives(value) == [raised |-> FALSE, value |-> value]
Raised == [raised |-> TRUE, value |-> FALSE]

validate_icon_svg_first(icon, image) ==
  IF ~image.present THEN Raised
  ELSE LET width == image.size[1]
           height == image.size[2]
       IN IF Lower(icon.format) = SVG THEN Gives(TRUE)
          ELSE IF width > 0 /\ height > 0 /\ Max2(width, height) > 2 * Min2(width, height)
          THEN Gives(FALSE)
          ELSE IF Max2(width, height) < 16 THEN Gives(FALSE)
          ELSE IF width * height > 2048 * 2048 THEN Gives(FALSE)
          ELSE Gives(TRUE)

\* The try block of _validate_icon. An object without a size makes
\* image.size raise. The sides are integers, so max / min > 2.0 is
\* max > 2 * min.
validate_icon_checks(icon, image) ==
  IF ~image.present THEN Raised
  ELSE LET width == image.size[1]
           height == image.size[2]
       IN IF width > 0 /\ height > 0 /\ Max2(width, height) > 2 * Min2(width, height)
          THEN Gives(FALSE)
          ELSE IF Max2(width, height) < 16 THEN Gives(FALSE)
          ELSE IF Lower(icon.format) = SVG THEN Gives(TRUE)
          ELSE IF width * height > 2048 * 2048 THEN Gives(FALSE)
          ELSE Gives(TRUE)

\* _validate_icon(icon, image): whatever the checks raise becomes False.
validate_icon(icon, image) ==
  LET checked == validate_icon_checks(icon, image)
  IN IF checked.raised THEN Gives(FALSE) ELSE checked

\* Side lengths of the images validated.
Sides == {0, 10, 15, 16, 32, 33, 100, 200, 600, 2048, 4096}

\* The calls _validate_icon(icon, image) considered, not made yet: images of
\* every size, and an object that is no image.
ValidateIconCalls ==
  {[op |-> "_validate_icon", done |-> FALSE,
    icon |-> PlainIcon(<<"h", "t", "t", "p", "s", ":", "/", "/", "e", "x", "a", "m", "p", "l", "e", ".", "c", "o", "m", "/", "l", "o", "g", "o">>, 0, 0, format),
    image |-> image, out |-> Raised] :
     format \in {<<"p", "n", "g">>, <<"s", "v", "g">>, <<"S", "V", "G">>},
     image \in {NoImg} \cup {[present |-> TRUE, size |-> <<w, h>>] : w, h \in Sides}}

\* One call _validate_icon(icon, image).
ValidateIcon ==
  /\ Awaits("_validate_icon")
  /\ call' = <<[call[1] EXCEPT !.done = TRUE,
                                !.out = validate_icon(call[1].icon, call[1].image)]>>
  /\ UNCHANGED <<engine_vars, hunt_vars, find_vars, task_vars>>

\* ------------------------------------------------------------------ URLs
IsLetter(c) == \E k \in 1..Len(UPPER) : UPPER[k] = c \/ LOWER[k] = c

\* Position of the first character of s that is in chars, or Len(s) + 1.
FirstOf(s, chars) ==
  LET First(at) == IF at = {} THEN Len(s) + 1 ELSE CHOOSE i \in at : \A j \in at : i <= j
  IN First({i \in 1..Len(s) : s[i] \in chars})

\* The parts of a URL once its scheme and network location are known:
\* from_path is the rest, path_end where its query or fragment starts.
UrlParts(scheme, netloc, from_path, path_end) ==
  [scheme |-> scheme, netloc |-> netloc,
   path |-> SubSeq(from_path, 1, path_end - 1),
   tail |-> SubSeq(from_path, path_end, Len(from_path))]

UrlAfterNetloc(scheme, netloc, from_path) ==
  UrlParts(scheme, netloc, from_path, FirstOf(from_path, {"?", "#"}))

UrlFromNetloc(scheme, after, netloc_end) ==
  UrlAfterNetloc(scheme, SubSeq(after, 1, netloc_end - 1),
                 SubSeq(after, netloc_end, Len(after)))

\* rest is the URL after "scheme:"; a network location follows "//".
UrlAfterScheme(scheme, rest) ==
  IF StartsWith(rest, <<"/", "/">>)
  THEN UrlFromNetloc(scheme, SubSeq(rest, 3, Len(rest)),
                     FirstOf(SubSeq(rest, 3, Len(rest)), {"/", "?", "#"}))
  ELSE UrlAfterNetloc(scheme, <<>>, rest)

\* The first colon, at position colon, ends a scheme.
HasScheme(url, colon) ==
  /\ colon > 1 /\ colon <= Len(url)
  /\ IsLetter(url[1])
  /\ \A k \in 1..(colon - 1) :
       IsLetter(url[k]) \/ IsDigit(url[k]) \/ url[k] \in {"+", "-", "."}

UrlFromColon(url, colon) ==
  IF HasScheme(url, colon)
  THEN UrlAfterScheme(Lower(SubSeq(url, 1, colon - 1)), SubSeq(url, colon + 1, Len(url)))
  ELSE UrlAfterScheme(<<>>, url)

\* urlparse(url): the scheme, the network location, the path, and what
\* follows the path (query and fragment).
urlparse(url) == UrlFromColon(url, FirstOf(url, {":"}))

\* The segments of the base path without its last one, the file name.
Folder(base_parts) ==
  IF base_parts[Len(base_parts)] # <<>>
  THEN SubSeq(base_parts, 1, Len(base_parts) - 1) ELSE base_parts

\* The segments of a joined path with the empty ones in the middle dropped.
Resolved(segments) ==
  <<segments[1]>>
    \o SelectSeq(SubSeq(segments, 2, Len(segments) - 1), LAMBDA seg : seg # <<>>)
    \o <<segments[Len(segments)]>>

\* urljoin of base and url parsed as b and u.
UrlJoinParsed(base, url, b, u) ==
  IF url = <<>> THEN base
  ELSE IF u.scheme # <<>> /\ u.scheme # b.scheme THEN url
  ELSE IF u.netloc # <<>> THEN b.scheme \o <<":", "/", "/">> \o u.netloc \o u.path \o u.tail
  ELSE IF u.path = <<>> THEN b.scheme \o <<":", "/", "/">> \o b.netloc \o b.path \o u.tail
  ELSE IF StartsWith(u.path, <<"/">>) THEN b.scheme \o <<":", "/", "/">> \o b.netloc \o u.path \o u.tail
  ELSE b.scheme \o <<":", "/", "/">> \o b.netloc
         \o Join(Resolved(Folder(SplitOn(b.path, {"/"})) \o SplitOn(u.path, {"/"})), <<"/">>)
         \o u.tail

\* urljoin(base, url) for a base with a scheme and a network location and a
\* url without "." and ".." segments.
urljoin(base, url) == UrlJoinParsed(base, url, urlparse(base), urlparse(url))

\* base_url of the domain looked up
BASE_URL == <<"h", "t", "t", "p", "s", ":", "/", "/", "e", "x", "a", "m", "p", "l", "e", ".", "c", "o", "m">>

MakeAbsoluteNever(value) == value

\* "Convert relative URLs to absolute", as every extraction step does it
\* with the value of an href, content or src attribute.
MakeAbsolute(value) ==
  IF StartsWith(value, <<"/", "/">>) THEN <<"h", "t", "t", "p", "s", ":">> \o value
  ELSE IF ~StartsWith(value, <<"h", "t", "t", "p">>) THEN urljoin(BASE_URL, value)
  ELSE value

\* parsed_url.path.split(".")[-1].lower() if "." in parsed_url.path else ""
PathFormat(url) ==
  LET path == urlparse(url).path
      parts == SplitOn(path, {"."})
  IN IF Len(parts) > 1 THEN Lower(parts[Len(parts)]) ELSE <<>>

\* int(s) of a str: <<n>>, or <<>> for ValueError. int() accepts blanks
\* around the number and a sign before it.
PyInt(s) ==
  LET t == Strip(s)
      signed == t # <<>> /\ t[1] \in {"+", "-"}
      ds == IF signed THEN Tail(t) ELSE t
  IN IF ds = <<>> \/ \E k \in 1..Len(ds) : ~IsDigit(ds[k]) THEN <<>>
     ELSE IF signed /\ t[1] = "-" THEN <<0 - DecimalValue(ds)>>
     ELSE <<DecimalValue(ds)>>

\* ------------------------------------------------------------------ manifest
\* A value of the parsed manifest: a str, some other object that is true
\* (a number, a list), or nothing (the key is absent, or null, or "").
JStr(text) == [type |-> "str", text |-> text]
JOther == [type |-> "other", text |-> <<>>]
JNothing == [type |-> "nothing", text |-> <<>>]

Truthy(v) == v.type = "other" \/ (v.type = "str" /\ v.text # <<>>)

\* An entry of the icons list: a JSON object with src and sizes, or a value
\* that is no object.
IconInfo(src, sizes) == [is_dict |-> TRUE, src |-> src, sizes |-> sizes]
NotAnObject == [is_dict |-> FALSE, src |-> JNothing, sizes |-> JNothing]

\* What the body of the loop of _check_manifest does with one entry: it
\* raises, goes on to the next entry, or appends an icon.
manifest_icon(icon_info) ==
  LET raise == [kind |-> "raise", icon |-> PlainIcon(<<>>, 0, 0, <<>>)]
      skip == [kind |-> "skip", icon |-> PlainIcon(<<>>, 0, 0, <<>>)]
  IN IF ~icon_info.is_dict THEN raise
     ELSE IF ~Truthy(icon_info.src) THEN skip
     ELSE IF icon_info.src.type # "str" THEN raise
     ELSE IF Truthy(icon_info.sizes) /\ icon_info.sizes.type # "str" THEN raise
     ELSE LET src == MakeAbsolute(icon_info.src.text)
              sizes == icon_info.sizes.text
              size_parts == SplitOn(sizes, {"x"})
              parsed == sizes # <<>> /\ Lower(sizes) # ANY /\ Len(size_parts) = 2
              width == IF parsed THEN PyInt(size_parts[1]) ELSE <<>>
              height == IF width # <<>> THEN PyInt(size_parts[2]) ELSE <<>>
          IN [kind |-> "icon",
              icon |-> PlainIcon(src,
                                 IF width # <<>> THEN width[1] ELSE 0,
                                 IF height # <<>> THEN height[1] ELSE 0,
                                 PathFormat(src))]

RECURSIVE ManifestIconsAllOrNothing(_, _, _)
ManifestIconsAllOrNothing(manifest_icons, k, icons) ==
  IF k > Len(manifest_icons) THEN icons
  ELSE LET step == manifest_icon(manifest_icons[k])
       IN IF step.kind = "raise" THEN <<>>
          ELSE IF step.kind = "skip" THEN ManifestIconsAllOrNothing(manifest_icons, k + 1, icons)
          ELSE ManifestIconsAllOrNothing(manifest_icons, k + 1, Append(icons, step.icon))

\* The loop over manifest.get("icons", []) from entry k on, inside the try
\* block: an entry that raises ends the loop, and the icons appended so far
\* are what the function returns.
RECURSIVE ManifestIcons(_, _, _)
ManifestIcons(manifest_icons, k, icons) ==
  IF k > Len(manifest_icons) THEN icons
  ELSE LET step == manifest_icon(manifest_icons[k])
       IN IF step.kind = "raise" THEN icons
          ELSE IF step.kind = "skip" THEN ManifestIcons(manifest_icons, k + 1, icons)
          ELSE ManifestIcons(manifest_icons, k + 1, Append(icons, step.icon))

\* The answer to the manifest fetch: status "error" when client.get raised,
\* else the HTTP status; whether the body is JSON; whether the JSON value is
\* an object; its "icons" member ("absent", "list", or "scalar" for a number
\* or null); and the entries of the list.
ManifestResponse(status, parses, is_object, icons_kind, entries) ==
  [status |-> status, parses |-> parses, is_object |-> is_object,
   icons_kind |-> icons_kind, entries |-> entries]

\* _check_manifest(domain, client, manifest_url)
check_manifest(resp) ==
  IF resp.status = "error" THEN Gives(<<>>)
  ELSE IF ~StatusOk(resp) THEN Gives(<<>>)
  ELSE IF ~resp.parses THEN Gives(<<>>)
  ELSE IF ~resp.is_object THEN Gives(<<>>)
  ELSE IF resp.icons_kind = "absent" THEN Gives(<<>>)
  ELSE IF resp.icons_kind = "scalar" THEN Gives(<<>>)
  ELSE Gives(ManifestIcons(resp.entries, 1, <<>>))

MaxEntries == 3

\* Entries of the icons list of the manifests considered.
ManifestEntries ==
  { IconInfo(JStr(<<"/", "i", "c", "o", "n", "-", "1", "9", "2", ".", "p", "n", "g">>), JStr(<<"1", "9", "2", "x", "1", "9", "2">>)),
    IconInfo(JStr(<<"/", "/", "c", "d", "n", ".", "e", "x", "a", "m", "p", "l", "e", ".", "c", "o", "m", "/", "i", "c", "o", "n", ".", "s", "v", "g">>), JStr(<<"a", "n", "y">>)),
    IconInfo(JStr(<<"i", "c", "o", "n", "-", "5", "1", "2", ".", "p", "n", "g">>), JStr(<<"5", "1", "2", "x">>)),
    IconInfo(JNothing, JStr(<<"4", "8", "x", "4", "8">>)),
    IconInfo(JStr(<<"/", "i", "c", "o", "n", "-", "9", "6", ".", "p", "n", "g">>), JOther),
    NotAnObject }

\* Answers to the manifest fetch: a network error, a 404, a body that is no
\* JSON, a JSON list, an object without icons, "icons": null, and objects
\* with a list of entries.
ManifestResponses ==
  { ManifestResponse("error", FALSE, FALSE, "absent", <<>>),
    ManifestResponse("404", FALSE, FALSE, "absent", <<>>),
    ManifestResponse("200", FALSE, FALSE, "absent", <<>>),
    ManifestResponse("200", TRUE, FALSE, "absent", <<>>),
    ManifestResponse("200", TRUE, TRUE, "absent", <<>>),
    ManifestResponse("200", TRUE, TRUE, "scalar", <<>>) }
    \cup {ManifestResponse("200", TRUE, TRUE, "list", entries) :
            entries \in SeqsUpTo(ManifestEntries, MaxEntries)}

\* The calls _check_manifest(domain, client, manifest_url) considered.
CheckManifestCalls ==
  {[op |-> "_check_manifest", done |-> FALSE, resp |-> resp, out |-> Raised] :
     resp \in ManifestResponses}

\* One call _check_manifest(domain, client, manifest_url).
CheckManifest ==
  /\ Awaits("_check_manifest")
  /\ call' = <<[call[1] EXCEPT !.done = TRUE, !.out = check_manifest(call[1].resp)]>>
  /\ UNCHANGED <<engine_vars, hunt_vars, find_vars, task_vars>>

\* ------------------------------------------------------------------ fallback
\* FALLBACK_LOCATIONS, each path as text.
FALLBACK_PATHS ==
  << <<"/", "f", "a", "v", "i", "c", "o", "n", ".", "s", "v", "g">>, <<"/", "l", "o", "g", "o", ".", "s", "v", "g">>, <<"/", "i", "c", "o", "n", ".", "s", "v", "g">>, <<"/", "f", "a", "v", "i", "c", "o", "n", "-", "5", "1", "2", "x", "5", "1", "2", ".", "p", "n", "g">>,
     <<"/", "a", "p", "p", "l", "e", "-", "t", "o", "u", "c", "h", "-", "i", "c", "o", "n", ".", "p", "n", "g">>, <<"/", "a", "p", "p", "l", "e", "-", "t", "o", "u", "c", "h", "-", "i", "c", "o", "n", "-", "p", "r", "e", "c", "o", "m", "p", "o", "s", "e", "d", ".", "p", "n", "g">>,
     <<"/", "f", "a", "v", "i", "c", "o", "n", ".", "i", "c", "o">> >>

APPLE_TOUCH_ICON == <<"a", "p", "p", "l", "e", "-", "t", "o", "u", "c", "h", "-", "i", "c", "o", "n">>

\* The answer to a HEAD probe: client.head raised, or it gave a status other
\* than 200, or it gave 200, after redirects to another host or without.
HeadAnswer(kind, redirected) == [kind |-> kind, redirected |-> redirected]

HeadAnswers ==
  { HeadAnswer("raise", FALSE), HeadAnswer("404", FALSE),
    HeadAnswer("200", FALSE), HeadAnswer("200", TRUE) }

\* urljoin(base_url, path) for each path of FALLBACK_LOCATIONS
PROBE_URLS == [k \in 1..Len(FALLBACK_PATHS) |-> urljoin(BASE_URL, FALLBACK_PATHS[k])]

\* str(response.url) for the probe of path k: the URL asked for, or where
\* the redirects ended.
FinalUrl(k, answer) ==
  IF answer.redirected THEN <<"h", "t", "t", "p", "s", ":", "/", "/", "w", "w", "w", ".", "e", "x", "a", "m", "p", "l", "e", ".", "c", "o", "m">> \o FALLBACK_PATHS[k]
  ELSE PROBE_URLS[k]

\* The Icon built for a path that answered 200.
fallback_icon(path, final_url) ==
  LET format_ext == IF Contains(path, <<".">>)
                    THEN Lower(SplitOn(path, {"."})[Len(SplitOn(path, {"."}))])
                    ELSE <<>>
      match == SizeRegexSearch(path)
      width == IF match # <<>> THEN match[1] ELSE 0
      height == IF match # <<>> THEN match[2] ELSE 0
      by_default == Contains(path, APPLE_TOUCH_ICON) /\ width = 0
  IN PlainIcon(final_url,
               IF by_default THEN 180 ELSE width,
               IF by_default THEN 180 ELSE height,
               format_ext)

\* The Icon of each path when it answers 200 without a redirect; after a
\* redirect only the url differs.
FALLBACK_ICONS ==
  [k \in 1..Len(FALLBACK_PATHS) |-> fallback_icon(FALLBACK_PATHS[k], PROBE_URLS[k])]

\* What _get_fallback_icons has done: the URLs it probed, in order, and the
\* icons it collected.
Probes(probed, icons) == [probed |-> probed, icons |-> icons]

RECURSIVE FallbackLoopStoppingAtFailure(_, _, _, _)
FallbackLoopStoppingAtFailure(answers, k, probed, icons) ==
  IF k > Len(FALLBACK_PATHS) THEN Probes(probed, icons)
  ELSE IF answers[k].kind = "raise" THEN Probes(Append(probed, PROBE_URLS[k]), icons)
  ELSE IF answers[k].kind = "200"
  THEN FallbackLoopStoppingAtFailure(answers, k + 1, Append(probed, PROBE_URLS[k]),
         Append(icons, [FALLBACK_ICONS[k] EXCEPT !.url = FinalUrl(k, answers[k])]))
  ELSE FallbackLoopStoppingAtFailure(answers, k + 1, Append(probed, PROBE_URLS[k]), icons)

\* The loop of _get_fallback_icons from path k on; answers[k] is what the
\* probe of path k meets. The try block is inside the loop.
RECURSIVE FallbackLoop(_, _, _, _)
FallbackLoop(answers, k, probed, icons) ==
  IF k > Len(FALLBACK_PATHS) THEN Probes(probed, icons)
  ELSE IF answers[k].kind = "raise"
  THEN FallbackLoop(answers, k + 1, Append(probed, PROBE_URLS[k]), icons)
  ELSE IF answers[k].kind = "200"
  THEN FallbackLoop(answers, k + 1, Append(probed, PROBE_URLS[k]),
         Append(icons, [FALLBACK_ICONS[k] EXCEPT !.url = FinalUrl(k, answers[k])]))
  ELSE FallbackLoop(answers, k + 1, Append(probed, PROBE_URLS[k]), icons)

\* _get_fallback_icons(domain, client)
get_fallback_icons(answers) == FallbackLoop(answers, 1, <<>>, <<>>)

\* The calls _get_fallback_icons(domain, client) considered, one for every
\* way the seven probes can be answered.
GetFallbackIconsCalls ==
  {[op |-> "_get_fallback_icons", done |-> FALSE, answers |-> answers,
    out |-> Probes(<<>>, <<>>)] :
     answers \in [1..Len(FALLBACK_PATHS) -> HeadAnswers]}

\* One call _get_fallback_icons(domain, client).
GetFallbackIcons ==
  /\ Awaits("_get_fallback_icons")
  /\ call' = <<[call[1] EXCEPT !.done = TRUE,
                                !.out = get_fallback_icons(call[1].answers)]>>
  /\ UNCHANGED <<engine_vars, hunt_vars, find_vars, task_vars>>

\* ------------------------------------------------------------------ extraction
\* A selector tag[rel="..."][type="..."][property="..."][name="..."] (an
\* empty text stands for no condition), the attribute that is read from the
\* elements it matches, and its context.
Selector(tag, rel, type, property, name, attr, context) ==
  [tag |-> tag, rel |-> rel, type |-> type, property |-> property,
   name |-> name, attr |-> attr, context |-> context]

LOGO_SELECTORS ==
  << Selector(<<"l", "i", "n", "k">>, <<"m", "a", "n", "i", "f", "e", "s", "t">>, <<>>, <<>>, <<>>, "href", "manifest"),
     Selector(<<"l", "i", "n", "k">>, <<"a", "p", "p", "l", "e", "-", "t", "o", "u", "c", "h", "-", "i", "c", "o", "n">>, <<>>, <<>>, <<>>, "href", "apple-touch"),
     Selector(<<"l", "i", "n", "k">>, <<"a", "p", "p", "l", "e", "-", "t", "o", "u", "c", "h", "-", "i", "c", "o", "n", "-", "p", "r", "e", "c", "o", "m", "p", "o", "s", "e", "d">>, <<>>, <<>>, <<>>, "href", "apple-touch"),
     Selector(<<"l", "i", "n", "k">>, <<"i", "c", "o", "n">>, <<"i", "m", "a", "g", "e", "/", "s", "v", "g", "+", "x", "m", "l">>, <<>>, <<>>, "href", "favicon"),
     Selector(<<"l", "i", "n", "k">>, <<"i", "c", "o", "n">>, <<>>, <<>>, <<>>, "href", "favicon"),
     Selector(<<"l", "i", "n", "k">>, <<"s", "h", "o", "r", "t", "c", "u", "t", " ", "i", "c", "o", "n">>, <<>>, <<>>, <<>>, "href", "favicon"),
     Selector(<<"m", "e", "t", "a">>, <<>>, <<>>, <<"o", "g", ":", "i", "m", "a", "g", "e">>, <<>>, "content", "social"),
     Selector(<<"m", "e", "t", "a">>, <<>>, <<>>, <<>>, <<"o", "g", ":", "i", "m", "a", "g", "e">>, "content", "social"),
     Selector(<<"m", "e", "t", "a">>, <<>>, <<>>, <<>>, <<"t", "w", "i", "t", "t", "e", "r", ":", "i", "m", "a", "g", "e">>, "content", "social"),
     Selector(<<"m", "e", "t", "a">>, <<>>, <<>>, <<>>, <<"m", "s", "a", "p", "p", "l", "i", "c", "a", "t", "i", "o", "n", "-", "T", "i", "l", "e", "I", "m", "a", "g", "e">>, "content", "favicon") >>

\* The element matches the selector.
Matches(element, selector) ==
  /\ element.tag = selector.tag
  /\ selector.rel # <<>> => element.rel = selector.rel
  /\ selector.type # <<>> => element.type = selector.type
  /\ selector.property # <<>> => element.property = selector.property
  /\ selector.name # <<>> => element.name = selector.name

\* The positions of 1..n that are in chosen, in order.
Positions(n, chosen) == SelectSeq([k \in 1..n |-> k], LAMBDA k : k \in chosen)

\* tree.css(selector): the positions of the matching elements, in document
\* order.
Css(tree, selector) == Positions(Len(tree), {k \in 1..Len(tree) : Matches(tree[k], selector)})

\* The concatenation of the sequences in lists.
RECURSIVE Flatten(_)
Flatten(lists) ==
  IF lists = <<>> THEN <<>> ELSE Head(lists) \o Flatten(Tail(lists))

\* The positions of the ancestors of the element at position k, nearest first.
RECURSIVE AncestorsOf(_, _)
AncestorsOf(tree, k) ==
  IF tree[k].parent = 0 THEN <<>>
  ELSE <<tree[k].parent>> \o AncestorsOf(tree, tree[k].parent)

\* _get_parent_classes(element): the class attributes of its ancestors that
\* have one, nearest first.
get_parent_classes(tree, k) ==
  LET up == AncestorsOf(tree, k)
  IN SelectSeq([n \in 1..Len(up) |-> tree[up[n]].class], LAMBDA cls : cls # <<>>)

\* The body of the loop over tree.css('link[rel="manifest"]'): the icons of
\* the manifest the link points to, answers[k] being what the fetch meets.
manifest_link_icons(tree, answers, k) ==
  IF tree[k].href = <<>> THEN <<>> ELSE check_manifest(answers[k]).value

\* The body of the loop over the elements a selector matches: no icon, or one.
selector_icon(element, attr) ==
  LET href_value == IF attr = "href" THEN element.href ELSE element.content
      stripped == Strip(href_value)
      href == MakeAbsolute(stripped)
      size == extract_dimensions(element)
  IN IF stripped = <<>> \/ StartsWith(stripped, <<"d", "a", "t", "a", ":">>) THEN <<>>
     ELSE <<PlainIcon(href, size[1], size[2], PathFormat(href))>>

\* width and height of an <img>, both inside one try block: a width that is
\* no number leaves both at 0, a height that is none leaves the width.
img_size(img) ==
  LET width == IF img.width # <<>> THEN PyInt(img.width) ELSE <<0>>
      height == IF width = <<>> THEN <<>>
                ELSE IF img.height # <<>> THEN PyInt(img.height) ELSE <<0>>
  IN <<IF width = <<>> THEN 0 ELSE width[1],
       IF height = <<>> THEN 0 ELSE height[1]>>

RASTER_FORMATS == <<<<"p", "n", "g">>, <<"j", "p", "g">>, <<"j", "p", "e", "g">>, <<"w", "e", "b", "p">>, <<"g", "i", "f">>>>

\* format_ext of an <img> from its resolved src
img_format(src) ==
  LET path_parts == SplitOn(urlparse(src).path, {"."})
      named == {n \in 1..Len(RASTER_FORMATS) : Contains(Lower(src), RASTER_FORMATS[n])}
  IN IF Len(path_parts) > 1 THEN Lower(path_parts[Len(path_parts)])
     ELSE IF Contains(Lower(src), SVG) THEN SVG
     ELSE IF named # {} THEN RASTER_FORMATS[CHOOSE n \in named : \A m \in named : n <= m]
     ELSE <<>>

\* The Icon both discovery steps build for the <img> at position k, whose
\* src has been resolved.
img_icon(tree, k, src) ==
  Icon(src, img_size(tree[k])[1], img_size(tree[k])[2], img_format(src),
       tree[k].alt, tree[k].class, tree[k].id, get_parent_classes(tree, k), 0, <<>>)

\* The <img> has a src that is not a data: URL.
HasSrc(img) == img.src # <<>> /\ ~StartsWith(img.src, <<"d", "a", "t", "a", ":">>)

\* has_logo_keyword of _find_logo_images_by_keyword
has_logo_keyword(img, src) ==
  \/ Contains(Lower(src), LOGO)
  \/ Contains(Lower(img.class), LOGO)
  \/ Contains(Lower(img.id), LOGO)
  \/ Contains(Lower(img.alt), LOGO)

\* _find_logo_images_by_keyword(tree, base_url, found_data)
find_logo_images_by_keyword(tree) ==
  LET imgs == Positions(Len(tree), {k \in 1..Len(tree) : tree[k].tag = <<"i", "m", "g">>})
      found == SelectSeq(imgs, LAMBDA k :
                 HasSrc(tree[k]) /\ has_logo_keyword(tree[k], MakeAbsolute(tree[k].src)))
  IN [n \in 1..Len(found) |-> img_icon(tree, found[n], MakeAbsolute(tree[found[n]].src))]

logo_patterns ==
  << <<"l", "o", "g", "o">>, <<"i", "c", "o", "n">>, <<"b", "r", "a", "n", "d">>, <<"h", "e", "a", "d", "e", "r", "-", "l", "o", "g", "o">>, <<"s", "i", "t", "e", "-", "l", "o", "g", "o">>, <<"c", "o", "m", "p", "a", "n", "y", "-", "l", "o", "g", "o">>,
     <<"n", "a", "v", "b", "a", "r", "-", "b", "r", "a", "n", "d">>, <<"l", "o", "g", "o", "-", "i", "m", "g">>, <<"b", "r", "a", "n", "d", "-", "i", "m", "g">>, <<"s", "i", "t", "e", "-", "i", "c", "o", "n">> >>

\* The <img> elements looked at for an element a pattern matched: itself,
\* or the <img> elements under it, in document order.
ImgsWithin(tree, e) ==
  IF tree[e].tag = <<"i", "m", "g">> THEN <<e>>
  ELSE Positions(Len(tree), {k \in 1..Len(tree) :
         tree[k].tag = <<"i", "m", "g">> /\ \E n \in 1..Len(AncestorsOf(tree, k)) : AncestorsOf(tree, k)[n] = e})

\* _find_logo_images_by_class_id(tree, base_url)
find_logo_images_by_class_id(tree) ==
  LET PatternImgs(pattern) ==
        LET elements_by_class == Positions(Len(tree), {k \in 1..Len(tree) : Contains(tree[k].class, pattern)})
            elements_by_id == Positions(Len(tree), {k \in 1..Len(tree) : Contains(tree[k].id, pattern)})
            all_elements == elements_by_class \o elements_by_id
        IN Flatten([n \in 1..Len(all_elements) |-> ImgsWithin(tree, all_elements[n])])
      imgs == Flatten([p \in 1..Len(logo_patterns) |-> PatternImgs(logo_patterns[p])])
      found == SelectSeq(imgs, LAMBDA k : HasSrc(tree[k]))
  IN [n \in 1..Len(found) |-> img_icon(tree, found[n], MakeAbsolute(tree[found[n]].src))]
       \o find_logo_images_by_keyword(tree)

\* _find_icons_from_html(domain, html_content, client) on the parsed page
\* tree: the icons of the manifests, of the selector table, and of the
\* class, id and keyword searches.
find_icons_from_html(tree, answers) ==
  LET manifest_links == Css(tree, LOGO_SELECTORS[1])
      from_manifests ==
        Flatten([n \in 1..Len(manifest_links) |->
                   manifest_link_icons(tree, answers, manifest_links[n])])
      SelectorIcons(selector) ==
        IF selector.context = "manifest" THEN <<>>
        ELSE LET elements == Css(tree, selector)
             IN Flatten([n \in 1..Len(elements) |->
                           selector_icon(tree[elements[n]], selector.attr)])
      from_selectors ==
        Flatten([s \in 1..Len(LOGO_SELECTORS) |-> SelectorIcons(LOGO_SELECTORS[s])])
  IN from_manifests \o from_selectors \o find_logo_images_by_class_id(tree)

MaxNodes == 2

\* The elements of the pages considered.
Elements ==
  { [NoAttributes EXCEPT !.tag = <<"l", "i", "n", "k">>, !.rel = <<"i", "c", "o", "n">>,
                         !.href = <<"/", "f", "a", "v", "i", "c", "o", "n", ".", "i", "c", "o">>, !.sizes = <<"1", "6", "x", "1", "6">>],
    [NoAttributes EXCEPT !.tag = <<"m", "e", "t", "a">>, !.property = <<"o", "g", ":", "i", "m", "a", "g", "e">>,
                         !.content = <<" ", "/", "l", "o", "g", "o", "-", "l", "a", "r", "g", "e", ".", "p", "n", "g", " ">>],
    [NoAttributes EXCEPT !.tag = <<"l", "i", "n", "k">>, !.rel = <<"a", "p", "p", "l", "e", "-", "t", "o", "u", "c", "h", "-", "i", "c", "o", "n">>,
                         !.href = <<"d", "a", "t", "a", ":", "i", "m", "a", "g", "e", "/", "p", "n", "g", ";", "b", "a", "s", "e", "6", "4", ",", "A", "A", "A", "A">>],
    [NoAttributes EXCEPT !.tag = <<"l", "i", "n", "k">>, !.rel = <<"m", "a", "n", "i", "f", "e", "s", "t">>,
                         !.href = <<"/", "m", "a", "n", "i", "f", "e", "s", "t", ".", "j", "s", "o", "n">>],
    [NoAttributes EXCEPT !.tag = <<"i", "m", "g">>, !.class = <<"l", "o", "g", "o">>,
                         !.src = <<"h", "t", "t", "p", "-", "l", "o", "g", "o", ".", "p", "n", "g">>],
    [NoAttributes EXCEPT !.tag = <<"i", "m", "g">>, !.src = <<"/", "/", "c", "d", "n", ".", "e", "x", "a", "m", "p", "l", "e", ".", "c", "o", "m", "/", "b", "r", "a", "n", "d", ".", "p", "n", "g">>,
                         !.alt = <<"L", "o", "g", "o">>, !.width = <<"1", "2", "0">>, !.height = <<"4", "0", "p", "x">>],
    [NoAttributes EXCEPT !.tag = <<"i", "m", "g">>, !.src = <<"i", "m", "a", "g", "e", "s", "/", "m", "a", "r", "k", ".", "s", "v", "g">>],
    [NoAttributes EXCEPT !.tag = <<"d", "i", "v">>, !.class = <<"s", "i", "t", "e", "-", "h", "e", "a", "d", "e", "r", " ", "n", "a", "v", "b", "a", "r", "-", "b", "r", "a", "n", "d">>] }

\* Answers to the fetch of the manifest a page links to.
PageManifestResponses ==
  { ManifestResponse("error", FALSE, FALSE, "absent", <<>>),
    ManifestResponse("200", TRUE, TRUE, "list",
      <<IconInfo(JStr(<<"/", "i", "c", "o", "n", "-", "1", "9", "2", ".", "p", "n", "g">>), JStr(<<"1", "9", "2", "x", "1", "9", "2">>))>>),
    ManifestResponse("200", TRUE, TRUE, "list",
      <<IconInfo(JStr(<<"h", "t", "t", "p", "/", "i", "c", "o", "n", "-", "1", "9", "2", ".", "p", "n", "g">>), JStr(<<"1", "9", "2", "x", "1", "9", "2">>)), NotAnObject>>) }

\* The pages of at most MaxNodes elements: an element is at the top of the
\* page or under a <div> that comes before it.
Trees ==
  {[k \in 1..Len(elements) |-> [elements[k] EXCEPT !.parent = parents[k]]] :
     <<elements, parents>> \in
       {ep \in SeqsUpTo(Elements, MaxNodes) \X [1..MaxNodes -> 0..(MaxNodes - 1)] :
          \A k \in 1..MaxNodes :
            IF k > Len(ep[1]) THEN ep[2][k] = 0
            ELSE ep[2][k] = 0 \/ (ep[2][k] < k /\ ep[1][ep[2][k]].tag = <<"d", "i", "v">>)}}

\* The calls _find_icons_from_html(domain, html_content, client) considered;
\* answers[k] is used when the element at position k links to a manifest.
FindIconsFromHtmlCalls ==
  {[op |-> "_find_icons_from_html", done |-> FALSE, tree |-> tree,
    answers |-> [k \in 1..Len(tree) |-> answer], out |-> <<>>] :
     tree \in Trees,
     answer \in PageManifestResponses}

\* One call _find_icons_from_html(domain, html_content, client).
FindIconsFromHtml ==
  /\ Awaits("_find_icons_from_html")
  /\ call' = <<[call[1] EXCEPT !.done = TRUE,
                  !.out = find_icons_from_html(call[1].tree, call[1].answers)]>>
  /\ UNCHANGED <<engine_vars, hunt_vars, find_vars, task_vars>>

\* ------------------------------------------------------------------ discovery spec
MaxHits == 2

\* The answer to the root page fetch: status "error" when client.get raised
\* (a network error, a timeout), else the HTTP status and the parsed body.
RootPage(status, tree) == [status |-> status, tree |-> tree]

\* The page of test_find_logo_urls_integration.
IntegrationTree ==
  << [NoAttributes EXCEPT !.tag = <<"l", "i", "n", "k">>, !.rel = <<"i", "c", "o", "n">>,
                          !.href = <<"/", "f", "a", "v", "i", "c", "o", "n", ".", "i", "c", "o">>, !.sizes = <<"1", "6", "x", "1", "6">>],
     [NoAttributes EXCEPT !.tag = <<"m", "e", "t", "a">>, !.property = <<"o", "g", ":", "i", "m", "a", "g", "e">>,
                          !.content = <<"/", "l", "o", "g", "o", "-", "l", "a", "r", "g", "e", ".", "p", "n", "g">>],
     [NoAttributes EXCEPT !.tag = <<"l", "i", "n", "k">>, !.rel = <<"a", "p", "p", "l", "e", "-", "t", "o", "u", "c", "h", "-", "i", "c", "o", "n">>,
                          !.href = <<"/", "a", "p", "p", "l", "e", "-", "t", "o", "u", "c", "h", "-", "i", "c", "o", "n", ".", "p", "n", "g">>] >>

\* A page with one image, whose alt text is "Logo".
LogoImgTree ==
  << [NoAttributes EXCEPT !.tag = <<"i", "m", "g">>, !.src = <<"/", "i", "m", "g", "/", "m", "a", "r", "k", ".", "p", "n", "g">>, !.alt = <<"L", "o", "g", "o">>] >>

\* A page that links to two manifests.
ManifestTree ==
  << [NoAttributes EXCEPT !.tag = <<"l", "i", "n", "k">>, !.rel = <<"m", "a", "n", "i", "f", "e", "s", "t">>,
                          !.href = <<"/", "m", "a", "n", "i", "f", "e", "s", "t", ".", "j", "s", "o", "n">>],
     [NoAttributes EXCEPT !.tag = <<"l", "i", "n", "k">>, !.rel = <<"m", "a", "n", "i", "f", "e", "s", "t">>,
                          !.href = <<"/", "/", "c", "d", "n", ".", "e", "x", "a", "m", "p", "l", "e", ".", "c", "o", "m", "/", "s", "i", "t", "e", ".", "w", "e", "b", "m", "a", "n", "i", "f", "e", "s", "t">>] >>

RootPages ==
  { RootPage("error", <<>>), RootPage("500", LogoImgTree),
    RootPage("200", <<>>), RootPage("200", LogoImgTree),
    RootPage("200", IntegrationTree), RootPage("200", ManifestTree) }

\* The manifest fetches of the pages considered all raise.
ManifestDown(tree) ==
  [k \in 1..Len(tree) |-> ManifestResponse("error", FALSE, FALSE, "absent", <<>>)]

fetch_root_aborting(page) ==
  IF StatusOk(page)
  THEN [raised |-> FALSE,
        html_icons |-> find_icons_from_html(page.tree, ManifestDown(page.tree))]
  ELSE [raised |-> TRUE, html_icons |-> <<>>]

\* The try block of find_logo_urls around the root page fetch and
\* _find_icons_from_html: what it adds to all_icons, and whether an exception
\* leaves it. The except clause logs whatever is raised.
fetch_root(page) ==
  IF StatusOk(page)
  THEN [raised |-> FALSE,
        html_icons |-> find_icons_from_html(page.tree, ManifestDown(page.tree))]
  ELSE [raised |-> FALSE, html_icons |-> <<>>]

\* A request sent through the client: client.get or client.head, the URL,
\* and the step of find_logo_urls that sent it.
Request(method, url, source) == [method |-> method, url |-> url, source |-> source]

\* The _check_manifest fetches of _find_icons_from_html: one for every
\* manifest link that has an href, in document order.
manifest_requests(tree) ==
  LET Fetches(links) ==
        [n \in 1..Len(links) |-> Request("GET", MakeAbsolute(tree[links[n]].href), "manifest")]
  IN Fetches(SelectSeq(Css(tree, LOGO_SELECTORS[1]), LAMBDA k : tree[k].href # <<>>))

root_requests_retrying(page) ==
  IF StatusOk(page)
  THEN <<Request("GET", BASE_URL, "root")>> \o manifest_requests(page.tree)
  ELSE <<Request("GET", BASE_URL, "root"), Request("GET", BASE_URL, "root")>>

\* The requests of the try block around the root page fetch: client.get(url)
\* and, when the page came, the manifest fetches.
root_requests(page) ==
  IF StatusOk(page)
  THEN <<Request("GET", BASE_URL, "root")>> \o manifest_requests(page.tree)
  ELSE <<Request("GET", BASE_URL, "root")>>

\* The requests of _get_fallback_icons: client.head for each path in turn.
fallback_requests ==
  [k \in 1..Len(FALLBACK_PATHS) |-> Request("HEAD", PROBE_URLS[k], "fallback")]

\* The ways the seven fallback probes are answered here: none raises, and at
\* most MaxHits of them answer 200.
FallbackAnswers ==
  {answers \in [1..Len(FALLBACK_PATHS) -> HeadAnswers \ {HeadAnswer("raise", FALSE)}] :
     Cardinality({k \in 1..Len(FALLBACK_PATHS) : answers[k].kind = "200"}) <= MaxHits}

\* Answers to the scoring fetch here: client.get raises, the body is no
\* image, the body is a 100x100 image.
CandidateResponses ==
  { Response("error", <<>>, BinaryBody),
    Response("200", CT_PNG, BinaryBody),
    Response("200", CT_PNG, ImageBody(100, 100)) }

\* find_logo_urls(domain) has been called and is about to fetch the root page.
InitFind ==
  /\ rules = LoadAllRules(HuntValues)
  /\ result = <<>> /\ probe = <<>>
  /\ pc = "root" /\ all_icons = <<>> /\ fb = 1 /\ unique_icons = <<>>
  /\ scored_icons = <<>> /\ sorted_icons = <<>> /\ logo_urls = <<>>
  /\ attempts = <<>> /\ opened = {} /\ fetch_calls = 0
  /\ best_logo = NoLogo /\ output = Pending
  /\ CallIdle /\ FindIdle /\ TasksIdle

\* find_logo_urls: the root page fetch and _find_icons_from_html.
FindRoot ==
  /\ pc = "root"
  /\ \E page \in RootPages :
       /\ root_page' = <<page>>
       /\ requests' = root_requests(page)
       /\ all_icons' = fetch_root(page).html_icons
       /\ pc' = IF fetch_root(page).raised THEN "raised" ELSE "fallback"
  /\ UNCHANGED <<engine_vars, fb, unique_icons, scored_icons, sorted_icons,
                 logo_urls, attempts, opened, fetch_calls, best_logo, output,
                 heads, fetched, call, task_vars>>

\* find_logo_urls: _get_fallback_icons and the deduplication.
FindFallback ==
  /\ pc = "fallback"
  /\ \E answers \in FallbackAnswers :
       LET icons == all_icons \o get_fallback_icons(answers).icons
       IN /\ heads' = answers
          /\ requests' = requests \o fallback_requests
          /\ all_icons' = icons
          /\ AfterFallback(icons)
  /\ UNCHANGED <<engine_vars, fb, scored_icons, attempts, opened, fetch_calls,
                 best_logo, output, root_page, fetched, call, task_vars>>

ScoredIconMeasured(icon, resp, out) ==
  Icon(icon.url,
       IF DecodesAsImage(resp.body) THEN resp.body.size[1] ELSE icon.width,
       IF DecodesAsImage(resp.body) THEN resp.body.size[2] ELSE icon.height,
       icon.format, icon.alt_text, icon.css_classes, icon.element_id,
       icon.parent_classes, out.total_score, out.rule_details)

\* scored_icon = Icon(icon.url, icon.width, ..., score, rule_details) of the
\* scoring loop, for the response the scoring fetch got and the pair
\* _calculate_score_with_rules returned.
ScoredIcon(icon, resp, out) ==
  Icon(icon.url, icon.width, icon.height, icon.format, icon.alt_text,
       icon.css_classes, icon.element_id, icon.parent_classes,
       out.total_score, out.rule_details)

\* find_logo_urls: the scoring fetch of the next unique icon; after the last
\* one the list is sorted and returned.
FindScore ==
  /\ pc = "scoring"
  /\ \E resp \in CandidateResponses :
       LET icon == unique_icons[Len(scored_icons) + 1]
           scored == Append(scored_icons,
                            ScoredIcon(icon, resp, CalculateScoreWithRules(rules, icon, resp)))
       IN /\ scored_icons' = scored
          /\ fetched' = Append(fetched, resp)
          /\ requests' = Append(requests, Request("GET", icon.url, "score"))
          /\ IF Len(scored) = Len(unique_icons)
             THEN Rank(scored)
             ELSE UNCHANGED <<pc, sorted_icons, logo_urls>>
  /\ UNCHANGED <<engine_vars, all_icons, fb, unique_icons, attempts, opened,
                 fetch_calls, best_logo, output, root_page, heads, call, task_vars>>

NextFind == FindRoot \/ FindFallback \/ FindScore

SpecFind == InitFind /\ [][NextFind]_vars

\* --------------------------------------------- concurrent domain queries
\* get_customer_logo calls running as tasks of one event loop. A task runs
\* without interruption from one await that suspends it to the next, so every
\* action below is the code between two such awaits. The awaits inside
\* find_logo_urls before the first scoring fetch (root page, manifest, the
\* fallback probes) touch no module-level state and are taken as one.

MaxTasks == 2
MaxCandidates == 2

\* logger=None, and the logger the caller of task t passes.
NoLogger == "None"
CallerLogger(t) == "caller" \o ToString(t)

\* logging.getLogger(__name__) of hunter.py.
MODULE_LOGGER == "module"

\* ScoringEngine(): __init__ loads the rule table.
ScoringEngine == [rules |-> LoadAllRules(HuntValues)]

get_scoring_engine_always_new(global, built) ==
  LET made == Append(built, ScoringEngine)
  IN [scoring_engine |-> <<Len(made)>>, engines |-> made, returns |-> Len(made)]

\* get_scoring_engine(): global is _scoring_engine (<<>> for None, else the
\* one instance), built the instances constructed so far. It has no await.
get_scoring_engine(global, built) ==
  IF global = <<>>
  THEN LET made == Append(built, ScoringEngine)
       IN [scoring_engine |-> <<Len(made)>>, engines |-> made, returns |-> Len(made)]
  ELSE [scoring_engine |-> global, engines |-> built, returns |-> global[1]]

\* A get_customer_logo call not yet started: its logger argument, its locals
\* log and original_logger, the scoring fetches still to come, and the
\* instances get_scoring_engine has returned to it.
Task(logger_arg) ==
  [pc |-> "start", logger |-> logger_arg, log |-> NoLogger,
   original_logger |-> NoLogger, todo |-> 0, engine |-> {}]

\* The task once get_customer_logo has left through its finally clause.
Finally(task) == [task EXCEPT !.pc = "done"]

InitTasks ==
  /\ rules = <<>> /\ result = <<>> /\ probe = <<>>
  /\ HuntIdle /\ CallIdle /\ FindIdle
  /\ logger = MODULE_LOGGER
  /\ scoring_engine = <<>> /\ engines = <<>>
  /\ \E args \in [1..MaxTasks -> BOOLEAN] :
       tasks = [t \in 1..MaxTasks |->
                  Task(IF args[t] THEN CallerLogger(t) ELSE NoLogger)]

\* get_customer_logo up to the first await of find_logo_urls that suspends.
Enter(t) ==
  /\ tasks[t].pc = "start"
  /\ LET log == IF tasks[t].logger = NoLogger THEN logger ELSE tasks[t].logger
     IN /\ tasks' = [tasks EXCEPT ![t] = [@ EXCEPT !.pc = "find", !.log = log,
                                                   !.original_logger = logger]]
        /\ logger' = log
  /\ UNCHANGED <<engine_vars, hunt_vars, call, find_vars, scoring_engine, engines>>

\* find_logo_urls has its unique icons: with none it returns [] and
\* get_customer_logo returns None through finally; otherwise the task is
\* suspended in the scoring fetch of the first icon.
FindIcons(t) ==
  /\ tasks[t].pc = "find"
  /\ \E n \in 0..MaxCandidates :
       IF n = 0
       THEN /\ tasks' = [tasks EXCEPT ![t] = Finally(@)]
            /\ logger' = tasks[t].original_logger
       ELSE /\ tasks' = [tasks EXCEPT ![t] = [@ EXCEPT !.pc = "score", !.todo = n]]
            /\ UNCHANGED logger
  /\ UNCHANGED <<engine_vars, hunt_vars, call, find_vars, scoring_engine, engines>>

\* _calculate_score_with_rules after its fetch: get_scoring_engine() and
\* calculate_score, in the try body or in the except clause. After the last
\* icon find_logo_urls returns and the task is suspended in fetch_best_logo.
Score(t) ==
  /\ tasks[t].pc = "score"
  /\ LET got == get_scoring_engine(scoring_engine, engines)
     IN /\ scoring_engine' = got.scoring_engine
        /\ engines' = got.engines
        /\ rules' = got.engines[got.returns].rules
        /\ tasks' = [tasks EXCEPT ![t] =
                       [@ EXCEPT !.engine = @ \cup {got.returns},
                                 !.todo = @ - 1,
                                 !.pc = IF tasks[t].todo = 1 THEN "best" ELSE "score"]]
  /\ UNCHANGED <<result, probe, hunt_vars, call, find_vars, logger>>

\* fetch_best_logo has returned: process_image or return None, then finally.
ReturnLogo(t) ==
  /\ tasks[t].pc = "best"
  /\ tasks' = [tasks EXCEPT ![t] = Finally(@)]
  /\ logger' = tasks[t].original_logger
  /\ UNCHANGED <<engine_vars, hunt_vars, call, find_vars, scoring_engine, engines>>

NextTasks ==
  \E t \in 1..MaxTasks : Enter(t) \/ FindIcons(t) \/ Score(t) \/ ReturnLogo(t)

SpecTasks == InitTasks /\ [][NextTasks]_vars

\* ------------------------------------------------------------------ rule catalogue
\* What a rule function hands back: the Python type of the object and, for
\* a bool, an int or a float, its value in hundredths.
Returns(type, hundredths) == [type |-> type, h |-> hundredths]

\* The objects of the engine model, in the same form.
AsReturned(r) ==
  IF r.kind = "bool" THEN Returns("bool", IF r.b THEN 100 ELSE 0)
  ELSE IF r.kind = "num" THEN Returns("float", 25 * r.q)
  ELSE Returns("str", 0)

\* x and "logo" in x.lower(): the empty text itself when x is empty.
AndLogoIn(x) ==
  IF x = <<>> THEN Returns("str", 0) ELSE Returns("bool", IF Contains(Lower(x), LOGO) THEN 100 ELSE 0)

logo_in_filename(ctx) ==
  Returns("bool", IF Contains(Lower(urlparse(ctx.url).path), LOGO) THEN 100 ELSE 0)

logo_in_css_classes(ctx) == AndLogoIn(ctx.css_classes)

logo_in_element_id(ctx) == AndLogoIn(ctx.element_id)

keywords == <<<<"b", "r", "a", "n", "d">>, <<"i", "c", "o", "n">>, <<"h", "e", "a", "d", "e", "r", "-", "l", "o", "g", "o">>, <<"s", "i", "t", "e", "-", "l", "o", "g", "o">>, <<"c", "o", "m", "p", "a", "n", "y", "-", "l", "o", "g", "o">>>>

\* 1 when one of the keywords is in the text, else 0.
KeywordMatch(text) ==
  IF \E k \in 1..Len(keywords) : Contains(Lower(text), keywords[k]) THEN 1 ELSE 0

brand_keywords(ctx) ==
  Returns("int", 100 * (KeywordMatch(urlparse(ctx.url).path) + KeywordMatch(ctx.alt_text)
                          + KeywordMatch(ctx.css_classes) + KeywordMatch(ctx.element_id)))

header_proximity(ctx) ==
  LET Graded(depth) ==
        IF depth <= 3 THEN Returns("float", 100)
        ELSE IF depth <= 5 THEN Returns("float", 67)
        ELSE IF depth <= 8 THEN Returns("float", 33)
        ELSE Returns("int", 0)
  IN Graded(Len(ctx.parent_classes))

very_small_images(ctx) ==
  LET Graded(max_dimension) ==
        IF max_dimension < 16 THEN Returns("float", 100)
        ELSE IF max_dimension < 24 THEN Returns("float", 67)
        ELSE IF max_dimension < 32 THEN Returns("float", 33)
        ELSE Returns("bool", 0)
  IN IF ctx.width = 0 \/ ctx.height = 0 THEN Returns("int", 0)
     ELSE Graded(Max2(ctx.width, ctx.height))

\* is_odd_dimension of odd_dimensions: n is a prime above 100.
is_odd_dimension(n) ==
  n > 100 /\ \A i \in 2..n : i * i <= n => n % i # 0

odd_dimensions(ctx) ==
  LET Graded(penalty) ==
        IF penalty > 0 THEN Returns("float", penalty) ELSE Returns("bool", 0)
  IN IF ctx.width = 0 \/ ctx.height = 0 THEN Returns("int", 0)
     ELSE Graded((IF is_odd_dimension(ctx.width) \/ is_odd_dimension(ctx.height)
                  THEN 50 ELSE 0)
                 + (IF ctx.width = 150 /\ ctx.height = 150 THEN 100
                    ELSE IF <<ctx.width, ctx.height>> \in {<<120, 120>>, <<240, 240>>, <<360, 360>>}
                    THEN 75 ELSE 0))

standard_sizes == {128, 152, 167, 180, 192, 256, 512}

Near(a, b, tolerance) == a - b <= tolerance /\ b - a <= tolerance

apple_touch_icon_sizes(ctx) ==
  IF ctx.width = 0 \/ ctx.height = 0 THEN Returns("int", 0)
  ELSE IF ctx.width = ctx.height /\ ctx.width \in standard_sizes THEN Returns("float", 100)
  ELSE IF \E std \in standard_sizes : Near(ctx.width, std, 2) /\ Near(ctx.height, std, 2)
  THEN Returns("float", 80)
  ELSE Returns("int", 0)

\* The rule functions of the packages rules.html and rules.dimensions that
\* are modelled.
RULE_FUNCTIONS ==
  { "logo_in_filename", "logo_in_alt_text", "logo_in_css_classes", "logo_in_element_id",
    "brand_keywords", "header_proximity", "very_small_images",
    "extremely_wide_aspect_ratio", "odd_dimensions", "deep_dom_nesting",
    "apple_touch_icon_sizes" }

\* rule_applies = rule_func(img, width, height, url, ...)
rule_func(func, ctx) ==
  CASE func = "logo_in_filename" -> logo_in_filename(ctx)
    [] func = "logo_in_alt_text" -> AsReturned(logo_in_alt_text(ctx))
    [] func = "logo_in_css_classes" -> logo_in_css_classes(ctx)
    [] func = "logo_in_element_id" -> logo_in_element_id(ctx)
    [] func = "brand_keywords" -> brand_keywords(ctx)
    [] func = "header_proximity" -> header_proximity(ctx)
    [] func = "very_small_images" -> very_small_images(ctx)
    [] func = "extremely_wide_aspect_ratio" -> AsReturned(extremely_wide_aspect_ratio(ctx))
    [] func = "odd_dimensions" -> odd_dimensions(ctx)
    [] func = "deep_dom_nesting" -> AsReturned(deep_dom_nesting(ctx))
    [] func = "apple_touch_icon_sizes" -> apple_touch_icon_sizes(ctx)

\* Sizes a candidate context can carry: unknown, a favicon, small icons, an
\* auto-generated thumbnail, a touch icon and one nearly so, a prime side,
\* a banner.
ContextSizes ==
  { <<0, 0>>, <<16, 16>>, <<20, 30>>, <<120, 120>>, <<150, 150>>, <<180, 180>>,
    <<181, 179>>, <<101, 60>>, <<600, 60>> }

\* The candidate contexts a rule is called with.
RuleContexts ==
  { Context(NoImg, size[1], size[2], url, alt_text, css_classes, element_id,
            Ancestors(depth), <<>>, {}) :
      size \in ContextSizes,
      url \in {<<"h", "t", "t", "p", "s", ":", "/", "/", "e", "x", "a", "m", "p", "l", "e", ".", "c", "o", "m", "/", "f", "a", "v", "i", "c", "o", "n", ".", "i", "c", "o">>, <<"h", "t", "t", "p", "s", ":", "/", "/", "e", "x", "a", "m", "p", "l", "e", ".", "c", "o", "m", "/", "i", "m", "g", "/", "b", "r", "a", "n", "d", "-", "i", "c", "o", "n", ".", "p", "n", "g">>},
      alt_text \in {<<>>, <<"B", "r", "a", "n", "d", " ", "L", "o", "g", "o">>},
      css_classes \in {<<>>, <<"s", "i", "t", "e", "-", "l", "o", "g", "o">>},
      element_id \in {<<>>, <<"h", "e", "a", "d", "e", "r", "-", "l", "o", "g", "o">>},
      depth \in {0, 4, 7, 11} }

RuleFuncCalls ==
  {[op |-> "rule_func", done |-> FALSE, func |-> func, ctx |-> ctx, out |-> <<>>] :
     func \in RULE_FUNCTIONS, ctx \in RuleContexts}

\* One call rule_func(img, width, height, url, alt_text, css_classes,
\* element_id, parent_classes) of the loop of calculate_score.
RuleFunc ==
  /\ Awaits("rule_func")
  /\ call' = <<[call[1] EXCEPT !.done = TRUE,
                                !.out = rule_func(call[1].func, call[1].ctx)]>>
  /\ UNCHANGED <<engine_vars, hunt_vars, find_vars, task_vars>>

\* ------------------------------------------------------------------ <img> discovery
\* The <img> elements of the pages considered: src is a path without or
\* with "logo", a URL whose host has "logo", a data: URL, or absent; width
\* and height are absent, a number, no number, or a number below zero.
ImgElements ==
  { [NoAttributes EXCEPT !.tag = <<"i", "m", "g">>, !.src = src, !.alt = alt, !.class = class,
                         !.width = width, !.height = height] :
      src \in {<<"/", "i", "m", "a", "g", "e", "s", "/", "m", "a", "r", "k", ".", "p", "n", "g">>, <<"/", "i", "m", "g", "/", "L", "o", "g", "o", ".", "p", "n", "g">>, <<"/", "/", "l", "o", "g", "o", "-", "c", "d", "n", ".", "e", "x", "a", "m", "p", "l", "e", ".", "c", "o", "m", "/", "b", "r", "a", "n", "d", ".", "p", "n", "g">>,
               <<"d", "a", "t", "a", ":", "i", "m", "a", "g", "e", "/", "p", "n", "g", ";", "b", "a", "s", "e", "6", "4", ",", "A", "A", "A", "A">>, <<>>},
      alt \in {<<>>, <<"C", "o", "m", "p", "a", "n", "y", " ", "L", "o", "g", "o">>},
      class \in {<<>>, <<"b", "r", "a", "n", "d", "-", "i", "m", "g">>},
      width \in {<<>>, <<"1", "2", "0">>, <<"a", "u", "t", "o">>, <<"-", "5">>},
      height \in {<<>>, <<"4", "0">>, <<"4", "0", "p", "x">>, <<"-", "5">>} }

\* A page with one <img>, at the top of the page or under a <div> of the
\* given class.
ImgPages ==
  {<<img>> : img \in ImgElements}
    \cup {<<[NoAttributes EXCEPT !.tag = <<"d", "i", "v">>, !.class = <<"n", "a", "v", "b", "a", "r", "-", "b", "r", "a", "n", "d">>],
            [img EXCEPT !.parent = 1]>> : img \in ImgElements}

FindLogoImagesByKeywordCalls ==
  {[op |-> "_find_logo_images_by_keyword", done |-> FALSE, tree |-> tree, out |-> <<>>] :
     tree \in ImgPages}

\* One call _find_logo_images_by_keyword(tree, base_url, found_data).
FindLogoImagesByKeyword ==
  /\ Awaits("_find_logo_images_by_keyword")
  /\ call' = <<[call[1] EXCEPT !.done = TRUE,
                                !.out = find_logo_images_by_keyword(call[1].tree)]>>
  /\ UNCHANGED <<engine_vars, hunt_vars, find_vars, task_vars>>

FindLogoImagesByClassIdCalls ==
  {[op |-> "_find_logo_images_by_class_id", done |-> FALSE, tree |-> tree, out |-> <<>>] :
     tree \in ImgPages}

\* One call _find_logo_images_by_class_id(tree, base_url, found_data).
FindLogoImagesByClassId ==
  /\ Awaits("_find_logo_images_by_class_id")
  /\ call' = <<[call[1] EXCEPT !.done = TRUE,
                                !.out = find_logo_images_by_class_id(call[1].tree)]>>
  /\ UNCHANGED <<engine_vars, hunt_vars, find_vars, task_vars>>

\* ------------------------------------------------------------------ scoring call
\* The candidates handed to _calculate_score_with_rules: each side declared
\* or unknown, with or without an alt text.
ScoringIcons ==
  { Icon(<<"h", "t", "t", "p", "s", ":", "/", "/", "e", "x", "a", "m", "p", "l", "e", ".", "c", "o", "m", "/", "l", "o", "g", "o", ".", "p", "n", "g">>, width, height, <<"p", "n", "g">>, alt_text,
         <<>>, <<>>, <<>>, 0, <<>>) :
      width \in {0, 48}, height \in {0, 32}, alt_text \in {<<>>, <<"L", "o", "g", "o">>} }

CalculateScoreWithRulesCalls ==
  {[op |-> "_calculate_score_with_rules", done |-> FALSE, icon |-> icon, resp |-> resp,
    out |-> <<>>] :
     icon \in ScoringIcons, resp \in ScoringResponses}

\* One call _calculate_score_with_rules(icon, client): out.context is what
\* calculate_score was called with, out.score and out.rule_details are the
\* pair returned.
CalculateScoreWithRulesCall ==
  /\ Awaits("_calculate_score_with_rules")
  /\ call' = <<[call[1] EXCEPT
                  !.done = TRUE,
                  !.out = [context |-> ScoringContext(call[1].icon, call[1].resp),
                           score |-> CalculateScoreWithRules(rules, call[1].icon, call[1].resp).total_score,
                           rule_details |-> CalculateScoreWithRules(rules, call[1].icon, call[1].resp).rule_details]]>>
  /\ UNCHANGED <<engine_vars, hunt_vars, find_vars, task_vars>>

InitUnits ==
  /\ UnitsFrame
  /\ \/ \E c \in ExtractDimensionsCalls : call = <<c>>
     \/ \E c \in ValidateIconCalls : call = <<c>>
     \/ \E c \in CheckManifestCalls : call = <<c>>
     \/ \E c \in GetFallbackIconsCalls : call = <<c>>
     \/ \E c \in FindIconsFromHtmlCalls : call = <<c>>
     \/ \E c \in RuleFuncCalls : call = <<c>>
     \/ \E c \in FindLogoImagesByKeywordCalls : call = <<c>>
     \/ \E c \in FindLogoImagesByClassIdCalls : call = <<c>>
     \/ \E c \in CalculateScoreWithRulesCalls : call = <<c>>

NextUnits ==
  \/ ExtractDimensions
  \/ ValidateIcon
  \/ CheckManifest
  \/ GetFallbackIcons
  \/ FindIconsFromHtml
  \/ RuleFunc
  \/ FindLogoImagesByKeyword
  \/ FindLogoImagesByClassId
  \/ CalculateScoreWithRulesCall

SpecUnits == InitUnits /\ [][NextUnits]_vars

\* ------------------------------------------------------------------ fetch spec
MaxUrls == 3

\* The lists fetch_best_logo is called with.
FetchLists == SeqsUpTo({LogoUrl, BannerUrl}, MaxUrls)

\* fetch_best_logo(logo_urls) has been called.
InitFetch ==
  /\ rules = LoadAllRules(HuntValues)
  /\ result = <<>> /\ probe = <<>>
  /\ pc = "fetching" /\ all_icons = <<>> /\ fb = 1 /\ unique_icons = <<>>
  /\ scored_icons = <<>> /\ sorted_icons = <<>>
  /\ logo_urls \in FetchLists
  /\ attempts = <<>> /\ opened = {} /\ fetch_calls = 1
  /\ best_logo = NoLogo /\ output = Pending
  /\ CallIdle /\ FindIdle /\ TasksIdle

\* fetch_best_logo: "if not logo_urls: return None", or the return None
\* after the loop has tried every URL.
FetchNone ==
  /\ pc = "fetching" /\ call = <<>>
  /\ Len(attempts) = Len(logo_urls)
  /\ pc' = "done" /\ best_logo' = NoLogo
  /\ UNCHANGED <<engine_vars, all_icons, fb, unique_icons, scored_icons, sorted_icons,
                 logo_urls, attempts, opened, fetch_calls, output, call, find_vars,
                 task_vars>>

\* fetch_best_logo: the next turn of the loop calls fetch_and_validate(url),
\* which takes the semaphore and sends client.get(logo_url).
FetchSend ==
  /\ pc = "fetching" /\ call = <<>>
  /\ Len(attempts) < Len(logo_urls)
  /\ call' = <<[op |-> "fetch_and_validate", done |-> FALSE,
                url |-> logo_urls[Len(attempts) + 1], out |-> <<>>]>>
  /\ UNCHANGED <<engine_vars, hunt_vars, find_vars, task_vars>>

\* fetch_best_logo: the response comes, fetch_and_validate returns, and the
\* loop returns the image or goes on.
FetchReceive ==
  /\ pc = "fetching" /\ call # <<>>
  /\ \E resp \in FetchResponses :
       /\ attempts' = Append(attempts, [url |-> call[1].url, resp |-> resp])
       /\ opened' = IF fetch_and_validate(resp).opened_image
                    THEN opened \cup {Len(attempts) + 1} ELSE opened
       /\ IF fetch_and_validate(resp).logo # NoLogo
          THEN pc' = "done" /\ best_logo' = fetch_and_validate(resp).logo
          ELSE UNCHANGED <<pc, best_logo>>
  /\ call' = <<>>
  /\ UNCHANGED <<engine_vars, all_icons, fb, unique_icons, scored_icons, sorted_icons,
                 logo_urls, fetch_calls, output, find_vars, task_vars>>

NextFetch == FetchNone \/ FetchSend \/ FetchReceive

SpecFetch == InitFetch /\ [][NextFetch]_vars

\* ------------------------------------------------------------------ helper claims
Made(op) == call[1].op = op /\ call[1].done

\* The text at position i of s is lw digits, an x, and lh digits.
PatternAt(s, i, lw, lh) ==
  /\ AllDigits(s, i, lw)
  /\ i + lw <= Len(s) /\ s[i + lw] \in {"x", "X"}
  /\ AllDigits(s, i + lw + 1, lh)

\* The places <<i, lw, lh>> at which a WxH pattern with 2 to 4 digits on each
\* side stands in s.
Patterns(s) ==
  {p \in (1..Len(s)) \X (2..4) \X (2..4) : PatternAt(s, p[1], p[2], p[3])}

\* C13: _extract_dimensions returns, for a sizes attribute of space-separated
\* WxH tokens, the token with the largest area; without a usable sizes
\* attribute, the first WxH pattern (2 to 4 digits a side) of the href, or of
\* the content when there is no href; and <<0, 0>> when there is neither.
C13_LargestSizeElseFirstPattern ==
  Made("_extract_dimensions") =>
    LET tokens == call[1].tokens
        element == call[1].element
        out == call[1].out
        s == IF element.href # <<>> THEN element.href ELSE element.content
        P == Patterns(s)
    IN /\ (tokens # <<>> /\ \A k \in 1..Len(tokens) : tokens[k].wxh # <<>>) =>
            /\ \E k \in 1..Len(tokens) : out = tokens[k].wxh[1]
            /\ \A k \in 1..Len(tokens) :
                 tokens[k].wxh[1][1] * tokens[k].wxh[1][2] <= out[1] * out[2]
       /\ (\A k \in 1..Len(tokens) : tokens[k].wxh = <<>>) =>
            IF P = {} THEN out = <<0, 0>>
            ELSE \E p \in P :
                   /\ \A q \in P : p[1] <= q[1]
                   /\ \A q \in P : q[1] = p[1] => q[2] <= p[2] /\ q[3] <= p[3]
                   /\ out = <<DecimalValue(SubSeq(s, p[1], p[1] + p[2] - 1)),
                              DecimalValue(SubSeq(s, p[1] + p[2] + 1, p[1] + p[2] + p[3]))>>

\* sizes="48x48 192x192 96x96" gave (192, 192).
C13_Witness ==
  /\ Made("_extract_dimensions")
  /\ call[1].element.sizes = <<"4", "8", "x", "4", "8", " ", "1", "9", "2", "x", "1", "9", "2", " ", "9", "6", "x", "9", "6">>
  /\ call[1].out = <<192, 192>>

\* C14: _validate_icon returns False for every image whose longest side is
\* under 16 pixels and for every image whose longer side is more than twice
\* its shorter side, returns True for a 200x200 image, and always returns a
\* boolean rather than raising.
C14_ValidateIconRejectsSmallAndElongated ==
  Made("_validate_icon") =>
    LET image == call[1].image
        out == call[1].out
        w == image.size[1]
        h == image.size[2]
    IN /\ ~out.raised /\ out.value \in BOOLEAN
       /\ (image.present /\ Max2(w, h) < 16) => out.value = FALSE
       /\ (image.present /\ Min2(w, h) > 0 /\ Max2(w, h) > 2 * Min2(w, h)) =>
            out.value = FALSE
       /\ (image.present /\ w = 200 /\ h = 200) => out.value = TRUE

\* A 10x10 image served for an icon of format svg was rejected.
C14_Witness ==
  /\ Made("_validate_icon")
  /\ call[1].image = [present |-> TRUE, size |-> <<10, 10>>]
  /\ call[1].icon.format = <<"s", "v", "g">>
  /\ call[1].out = Gives(FALSE)

\* The entry raises inside the loop of _check_manifest.
Malformed(icon_info) ==
  \/ ~icon_info.is_dict
  \/ icon_info.src.type = "other"
  \/ (icon_info.src.type = "str" /\ icon_info.src.text # <<>> /\ icon_info.sizes.type = "other")

\* The fetch or the parsing of the manifest fails at some point.
ManifestFails(resp) ==
  \/ resp.status # "200"
  \/ ~resp.parses
  \/ ~resp.is_object
  \/ resp.icons_kind = "scalar"
  \/ \E k \in 1..Len(resp.entries) : Malformed(resp.entries[k])

\* The entries before the first malformed one.
BeforeFailure(entries) ==
  SubSeq(entries, 1, FirstOf([k \in 1..Len(entries) |->
                                IF Malformed(entries[k]) THEN "bad" ELSE "good"],
                             {"bad"}) - 1)

\* C17 as stated: whenever the fetch or the parsing of a manifest fails at
\* any point, a malformed icons entry included, _check_manifest returns zero
\* icons and raises nothing.
C17_FailureGivesZeroIcons ==
  (Made("_check_manifest") /\ ManifestFails(call[1].resp)) =>
    call[1].out = Gives(<<>>)

\* The page links to a manifest whose fetch or parsing fails.
LinksToFailingManifest(tree, answers) ==
  \E k \in 1..Len(tree) :
    /\ Matches(tree[k], LOGO_SELECTORS[1]) /\ tree[k].href # <<>>
    /\ ManifestFails(answers[k])

\* C17, amended: _check_manifest never raises; when the fetch, the status
\* check or the JSON parsing fails it returns zero icons, and when an entry
\* of the icons list is malformed it returns the icons of the entries before
\* that entry, one for each of them that has a src. A page whose manifest
\* fails still gets the candidates of its icon links and of its images
\* with a logo class.
C17_FailureKeepsIconsParsedBefore ==
  /\ Made("_check_manifest") =>
       LET resp == call[1].resp
           out == call[1].out
           before == BeforeFailure(resp.entries)
           with_src == SelectSeq(before, LAMBDA e : e.src.text # <<>>)
       IN /\ ~out.raised
          /\ (resp.status # "200" \/ ~resp.parses \/ ~resp.is_object
                \/ resp.icons_kind = "scalar") => out.value = <<>>
          /\ resp.icons_kind = "list" =>
               /\ Len(out.value) = Len(with_src)
               /\ \A k \in 1..Len(with_src) :
                    out.value[k].url = MakeAbsolute(with_src[k].src.text)
  /\ (Made("_find_icons_from_html") /\ LinksToFailingManifest(call[1].tree, call[1].answers)) =>
       \A k \in 1..Len(call[1].tree) :
         LET element == call[1].tree[k]
         IN /\ Matches(element, LOGO_SELECTORS[5]) =>
                 \E n \in 1..Len(call[1].out) :
                   call[1].out[n].url = MakeAbsolute(Strip(element.href))
            /\ (element.tag = <<"i", "m", "g">> /\ Contains(element.class, LOGO)) =>
                 \E n \in 1..Len(call[1].out) :
                   call[1].out[n].css_classes = element.class

\* A manifest whose second entry is no object gave the icon of its first.
C17_Witness ==
  /\ Made("_check_manifest")
  /\ Len(call[1].resp.entries) = 2
  /\ ~Malformed(call[1].resp.entries[1])
  /\ Malformed(call[1].resp.entries[2])
  /\ Len(call[1].out.value) = 1

\* The paths that answered 200, in the order of FALLBACK_LOCATIONS.
Hits(answers) ==
  SelectSeq([k \in 1..Len(FALLBACK_PATHS) |-> k], LAMBDA k : answers[k].kind = "200")

\* C18: _get_fallback_icons probes every path of FALLBACK_LOCATIONS in order,
\* whatever the earlier probes met; a probe that raises or answers something
\* other than 200 gives no candidate; every path answering 200 gives exactly
\* one candidate, whose URL is the final URL after redirects, and the
\* candidates come in list order.
C18_EveryFallbackPathProbed ==
  Made("_get_fallback_icons") =>
    LET answers == call[1].answers
        out == call[1].out
        hits == Hits(answers)
    IN /\ out.probed = [k \in 1..Len(FALLBACK_PATHS) |-> BASE_URL \o FALLBACK_PATHS[k]]
       /\ Len(out.icons) = Len(hits)
       /\ \A n \in 1..Len(hits) :
            out.icons[n].url = FinalUrl(hits[n], answers[hits[n]])

\* The first probe raised, the second answered 404, the third was redirected
\* and answered 200, the last answered 200: two candidates.
C18_Witness ==
  /\ Made("_get_fallback_icons")
  /\ call[1].answers[1].kind = "raise"
  /\ call[1].answers[2].kind = "404"
  /\ call[1].answers[3] = HeadAnswer("200", TRUE)
  /\ call[1].answers[7] = HeadAnswer("200", FALSE)
  /\ Len(call[1].out.icons) = 2
  /\ call[1].out.icons[1].url = <<"h", "t", "t", "p", "s", ":", "/", "/", "w", "w", "w", ".", "e", "x", "a", "m", "p", "l", "e", ".", "c", "o", "m", "/", "i", "c", "o", "n", ".", "s", "v", "g">>
  /\ call[1].out.icons[2].format = <<"i", "c", "o">>

\* The URL has an http or https scheme and a host.
IsAbsolute(url) ==
  /\ urlparse(url).scheme \in {<<"h", "t", "t", "p">>, <<"h", "t", "t", "p", "s">>}
  /\ urlparse(url).netloc # <<>>

\* C12: every candidate of every extraction step of _find_icons_from_html
\* (manifest icons, selector table, class/id search, keyword search) has a
\* non-empty absolute URL, whatever the value of the attribute it was read
\* from.
C12_EveryCandidateUrlIsAbsolute ==
  Made("_find_icons_from_html") =>
    \A n \in 1..Len(call[1].out) :
      call[1].out[n].url # <<>> /\ IsAbsolute(call[1].out[n].url)

\* ------------------------------------------------------------------ discovery claims
\* find_logo_urls has returned, having fetched page.
FoundOn(page) == pc = "found" /\ root_page = <<page>>

\* The paths whose probe answered 200.
HitPaths == {k \in 1..Len(heads) : heads[k].kind = "200"}

RootFailed == root_page # <<>> /\ root_page[1].status # "200"

\* C15: when the root page fetch fails, find_logo_urls does not abort; the
\* fallback probes are made, and every fallback path that answers 200 is in
\* the ranked result.
C15_FallbackSurvivesRootFailure ==
  RootFailed =>
    /\ pc # "raised"
    /\ pc = "found" =>
         /\ Len(heads) = Len(FALLBACK_PATHS)
         /\ \A k \in HitPaths :
              \E n \in 1..Len(logo_urls) : logo_urls[n] = FinalUrl(k, heads[k])

\* The root page fetch raised, two probes answered 200, two URLs came back.
C15_Witness ==
  /\ FoundOn(RootPage("error", <<>>))
  /\ Cardinality(HitPaths) = 2
  /\ Len(logo_urls) = 2

\* The scoring fetch raised, or what came back is no image.
ScoringFailed(resp) == resp.status = "error" \/ ~DecodesAsImage(resp.body)

\* C16: a scoring fetch that fails, or a body that cannot be decoded, is not
\* fatal: the candidate gets the engine score of its own width, height and
\* HTML context with no image and no SVG markup, and stays in the result.
C16_FailedScoringFetchFallsBack ==
  /\ \A k \in 1..Len(scored_icons) :
       ScoringFailed(fetched[k]) =>
         LET icon == unique_icons[k]
             out == calculate_score(rules, Context(NoImg, icon.width, icon.height,
                      icon.url, icon.alt_text, icon.css_classes, icon.element_id,
                      icon.parent_classes, "", {}))
         IN /\ scored_icons[k].url = icon.url
            /\ scored_icons[k].score = out.total_score
            /\ scored_icons[k].rule_details = out.rule_details
  /\ pc = "found" =>
       \A k \in 1..Len(unique_icons) :
         \E n \in 1..Len(logo_urls) : logo_urls[n] = unique_icons[k].url

\* The image with alt text "Logo" could not be fetched and scored 3.
C16_Witness ==
  /\ pc = "found"
  /\ \E k \in 1..Len(scored_icons) :
       /\ fetched[k].status = "error"
       /\ scored_icons[k].alt_text = <<"L", "o", "g", "o">>
       /\ scored_icons[k].score = 3
       /\ \E n \in 1..Len(logo_urls) : logo_urls[n] = scored_icons[k].url

\* Every get_customer_logo call has returned.
AllReturned == tasks # <<>> /\ \A t \in DOMAIN tasks : tasks[t].pc = "done"

\* Every call was given a logger of its own.
DifferentCallerLoggers ==
  /\ \A t \in DOMAIN tasks : tasks[t].logger # NoLogger
  /\ \A t, u \in DOMAIN tasks : t # u => tasks[t].logger # tasks[u].logger

\* C19: whatever the interleaving of two or more get_customer_logo calls given
\* different caller loggers, once all of them have returned the module-level
\* logger is the one in place before the first call started.
C19_ModuleLoggerRestored ==
  (AllReturned /\ DifferentCallerLoggers) => logger = MODULE_LOGGER

\* C20: over any interleaving of get_scoring_engine calls from concurrent
\* tasks a ScoringEngine is constructed at most once, every call returns that
\* one instance, and its rule table stays the one loaded at construction.
C20_ScoringEngineBuiltOnce ==
  /\ Len(engines) <= 1
  /\ \A t \in DOMAIN tasks : \A e \in tasks[t].engine : scoring_engine = <<e>>
  /\ \A e \in DOMAIN engines :
       /\ engines[e].rules = LoadAllRules(HuntValues)
       /\ rules = engines[e].rules

\* Two tasks have each scored icons and returned, sharing the one engine.
C20_Witness ==
  /\ AllReturned
  /\ Len(engines) = 1
  /\ Cardinality({t \in DOMAIN tasks : tasks[t].engine = {1}}) >= 2

\* ------------------------------------------------------------------ rule values
\* The object is a bool, or an int or float from 0 to 1.
BoolOrUnit(r) ==
  \/ r.type = "bool"
  \/ r.type \in {"int", "float"} /\ 0 <= r.h /\ r.h <= 100

\* C22: every rule of the catalogue returns, for every candidate context, a
\* boolean or a number in the closed interval [0,1].
C22_RuleReturnsBoolOrUnitNumber ==
  Made("rule_func") => BoolOrUnit(call[1].out)

\* ------------------------------------------------------------------ candidate sizes
\* The candidates a finished discovery call returned.
ImgCallOut ==
  IF (Made("_find_logo_images_by_keyword") \/ Made("_find_logo_images_by_class_id")
      \/ Made("_find_icons_from_html"))
  THEN call[1].out ELSE <<>>

\* C23: the width and height of every candidate are non-negative integers,
\* whatever the width and height attributes of the page are.
C23_CandidateSizesNonNegative ==
  \A k \in 1..Len(ImgCallOut) :
     /\ ImgCallOut[k].width \in Nat
     /\ ImgCallOut[k].height \in Nat

\* ------------------------------------------------------------------ keyword discovery
\* The positions of the <img> elements of the tree that have a usable src.
ImgsWithSrc(tree) ==
  Positions(Len(tree), {k \in 1..Len(tree) : tree[k].tag = <<"i", "m", "g">> /\ HasSrc(tree[k])})

\* "logo" is, in any case of letters, in the path of the resolved src, in
\* the alt text, in the class or in the id of the <img>.
LogoInPathOrAttributes(img) ==
  \/ Contains(Lower(urlparse(MakeAbsolute(img.src)).path), LOGO)
  \/ Contains(Lower(img.alt), LOGO)
  \/ Contains(Lower(img.class), LOGO)
  \/ Contains(Lower(img.id), LOGO)

\* A pattern of the class and id search is in the class or id of the
\* element at position k or of one of its ancestors.
HasBrandPattern(tree, k) ==
  \E e \in {k} \cup {AncestorsOf(tree, k)[n] : n \in 1..Len(AncestorsOf(tree, k))} :
    \E p \in 1..Len(logo_patterns) :
      Contains(tree[e].class, logo_patterns[p]) \/ Contains(tree[e].id, logo_patterns[p])

\* C25: the keyword search returns one candidate for each <img> with a
\* usable src that has "logo" in the path of its resolved URL, its alt text,
\* its class or its id, and for no other; and an <img> with none of these
\* and no pattern on itself or an ancestor is not among the candidates of
\* the class and id search.
C25_KeywordFlagsLogoInPathOrAttributes ==
  /\ Made("_find_logo_images_by_keyword") =>
       LET Same(tree, flagged) ==
             /\ Len(call[1].out) = Len(flagged)
             /\ \A n \in 1..Len(flagged) :
                  call[1].out[n].url = MakeAbsolute(tree[flagged[n]].src)
       IN Same(call[1].tree,
               SelectSeq(ImgsWithSrc(call[1].tree),
                         LAMBDA k : LogoInPathOrAttributes(call[1].tree[k])))
  /\ Made("_find_logo_images_by_class_id") =>
       \A k \in 1..Len(call[1].tree) :
         ( /\ call[1].tree[k].tag = <<"i", "m", "g">> /\ HasSrc(call[1].tree[k])
           /\ ~LogoInPathOrAttributes(call[1].tree[k])
           /\ ~HasBrandPattern(call[1].tree, k) )
         => \A n \in 1..Len(call[1].out) :
              call[1].out[n].url = MakeAbsolute(call[1].tree[k].src)
              => \E j \in 1..Len(call[1].tree) :
                   /\ call[1].tree[j].tag = <<"i", "m", "g">> /\ HasSrc(call[1].tree[j])
                   /\ MakeAbsolute(call[1].tree[j].src) = call[1].out[n].url
                   /\ (LogoInPathOrAttributes(call[1].tree[j]) \/ HasBrandPattern(call[1].tree, j))

\* ------------------------------------------------------------------ <img> sizes
\* The number a width or height attribute stands for, 0 when it is absent
\* or no number.
Declared(attr) ==
  IF attr = <<>> \/ PyInt(attr) = <<>> THEN 0 ELSE PyInt(attr)[1]

\* C29: every candidate of the class, id and keyword searches carries the
\* width of its <img> when that is a number and 0 when it is not, and the
\* same for the height, each whatever the other attribute is.
C29_MalformedSideAloneIsZero ==
  (Made("_find_logo_images_by_keyword") \/ Made("_find_logo_images_by_class_id")) =>
    \A n \in 1..Len(call[1].out) :
      \E k \in 1..Len(call[1].tree) :
        /\ call[1].tree[k].tag = <<"i", "m", "g">> /\ HasSrc(call[1].tree[k])
        /\ MakeAbsolute(call[1].tree[k].src) = call[1].out[n].url
        /\ call[1].out[n].width = Declared(call[1].tree[k].width)
        /\ call[1].out[n].height = Declared(call[1].tree[k].height)

\* ------------------------------------------------------------------ scoring context
\* The response is one of a raster image that decodes.
RasterDecoded(resp) ==
  resp.status # "error" /\ ~Contains(resp.content_type, SVG) /\ DecodesAsImage(resp.body)

\* The response has a content type with "svg".
SvgTyped(resp) == resp.status # "error" /\ Contains(resp.content_type, SVG)

\* The context is the one of a decoded raster image: its pixel sizes, the
\* image, no markup.
RasterContext(ctx, resp) ==
  /\ ctx.width = resp.body.size[1] /\ ctx.height = resp.body.size[2]
  /\ ctx.img = [present |-> TRUE, size |-> resp.body.size]
  /\ ctx.svg_content = ""

\* The width and height of the context are the declared ones, 100 standing
\* for each that is 0, and no image is in it.
DeclaredOr100(ctx, icon) ==
  /\ ctx.width = (IF icon.width = 0 THEN 100 ELSE icon.width)
  /\ ctx.height = (IF icon.height = 0 THEN 100 ELSE icon.height)
  /\ ctx.img = NoImg

\* The statement of claim C28 as written: every response of an svg content
\* type gives the declared sizes with 100 for 0.
C28_SvgTypeGivesDeclaredOr100 ==
  Made("_calculate_score_with_rules") =>
    /\ RasterDecoded(call[1].resp) => RasterContext(call[1].out.context, call[1].resp)
    /\ SvgTyped(call[1].resp) => DeclaredOr100(call[1].out.context, call[1].icon)
    /\ call[1].out.context.img # NoImg => RasterDecoded(call[1].resp)
    /\ call[1].out.context.svg_content # "" => SvgTyped(call[1].resp)

\* C28: the engine gets the pixel sizes and the image for a raster response
\* that decodes; the declared sizes with 100 for each 0, and the markup, for
\* a response of an svg content type whose body decodes as text; and in
\* every other case the declared sizes as they are, no image, no markup.
C28_ContextHandedToEngine ==
  Made("_calculate_score_with_rules") =>
    LET Holds(ctx, icon, resp) ==
          IF RasterDecoded(resp) THEN RasterContext(ctx, resp)
          ELSE IF SvgTyped(resp) /\ DecodesAsText(resp.body)
          THEN DeclaredOr100(ctx, icon) /\ ctx.svg_content = resp.body.text
          ELSE /\ ctx.width = icon.width /\ ctx.height = icon.height
               /\ ctx.img = NoImg /\ ctx.svg_content = ""
    IN Holds(call[1].out.context, call[1].icon, call[1].resp)

\* A candidate declared 48 by 32 was scored on a raster response of other
\* pixel sizes.
C28_Witness ==
  /\ Made("_calculate_score_with_rules")
  /\ RasterDecoded(call[1].resp)
  /\ call[1].icon.width = 48 /\ call[1].icon.height = 32
  /\ call[1].resp.body.size # <<48, 32>>

\* ------------------------------------------------------------------ requests
\* How many requests of the step have been sent to the URL so far.
Sent(source, url) ==
  Cardinality({i \in 1..Len(requests) : requests[i].source = source /\ requests[i].url = url})

\* How many requests of the step have been sent so far.
SentBy(source) == Cardinality({i \in 1..Len(requests) : requests[i].source = source})

\* The manifest links of the root page that have an href, when it came.
ManifestLinks ==
  IF root_page # <<>> /\ StatusOk(root_page[1])
  THEN {k \in 1..Len(root_page[1].tree) :
          /\ root_page[1].tree[k].tag = <<"l", "i", "n", "k">> /\ root_page[1].tree[k].rel = <<"m", "a", "n", "i", "f", "e", "s", "t">>
          /\ root_page[1].tree[k].href # <<>>}
  ELSE {}

\* C21: once the root page has been asked for, it has been asked for once,
\* and every manifest link once; once the fallback paths have been probed,
\* each has been probed once; the scoring fetches so far are those of the
\* first deduplicated candidates, one each and in their order, and at the
\* end of all of them; and no other request has been sent.
C21_EveryFetchSentOnce ==
  /\ pc # "root" =>
       /\ Sent("root", BASE_URL) = 1
       /\ SentBy("manifest") = Cardinality(ManifestLinks)
       /\ \A k \in ManifestLinks :
            Sent("manifest", MakeAbsolute(root_page[1].tree[k].href))
              = Cardinality({j \in ManifestLinks :
                   MakeAbsolute(root_page[1].tree[j].href)
                     = MakeAbsolute(root_page[1].tree[k].href)})
  /\ pc \in {"scoring", "found"} =>
       /\ SentBy("fallback") = Len(FALLBACK_PATHS)
       /\ \A k \in 1..Len(FALLBACK_PATHS) : Sent("fallback", PROBE_URLS[k]) = 1
  /\ Urls(SelectSeq(requests, LAMBDA r : r.source = "score"))
       = [k \in 1..Len(scored_icons) |-> unique_icons[k].url]
  /\ pc = "found" => \A k \in 1..Len(unique_icons) : Sent("score", unique_icons[k].url) = 1
  /\ Len(requests) = SentBy("root") + SentBy("manifest") + SentBy("fallback") + SentBy("score")
  /\ SentBy("root") <= 1

\* A run on the page with two manifest links has ended with two candidates,
\* the scoring fetch of one having raised and that of the other not.
C21_Witness ==
  /\ pc = "found"
  /\ Cardinality(ManifestLinks) = 2
  /\ Len(unique_icons) = 2
  /\ fetched[1].status = "error" /\ fetched[2].status = "200"

\* A run whose root page fetch failed has probed the fallback paths.
C21_WitnessRootFailed ==
  /\ pc = "found"
  /\ ~StatusOk(root_page[1])
  /\ Len(unique_icons) >= 1

\* ------------------------------------------------------------------ deduplication
\* The positions of all_icons at which the URL occurs.
Occurrences(url) == {i \in 1..Len(all_icons) : all_icons[i].url = url}

First(positions) == CHOOSE i \in positions : \A j \in positions : i <= j

Last(positions) == CHOOSE i \in positions : \A j \in positions : i >= j

\* C26: after deduplication every URL of the candidates is there once, with
\* the width, height, format and DOM context of its last occurrence, and
\* the URLs are in the order of their first occurrences.
C26_DedupLastWriteFirstPosition ==
  pc \in {"scoring", "found"} =>
    /\ \A i \in 1..Len(all_icons) :
         Cardinality({k \in 1..Len(unique_icons) : unique_icons[k].url = all_icons[i].url}) = 1
    /\ \A k \in 1..Len(unique_icons) :
         /\ Occurrences(unique_icons[k].url) # {}
         /\ unique_icons[k] = all_icons[Last(Occurrences(unique_icons[k].url))]
    /\ \A k, l \in 1..Len(unique_icons) :
         k < l => First(Occurrences(unique_icons[k].url)) < First(Occurrences(unique_icons[l].url))

\* A fallback hit on /favicon.ico came after the page had declared it as
\* 16x16 and had declared other candidates after it.
C26_Witness ==
  /\ pc \in {"scoring", "found"}
  /\ \E i, j \in 1..Len(all_icons) :
       /\ i < j /\ j = Len(all_icons)
       /\ all_icons[i].url = all_icons[j].url
       /\ all_icons[i].width = 16 /\ all_icons[j].width = 0
       /\ \E k \in 1..(Len(unique_icons) - 1) :
            /\ unique_icons[k].url = all_icons[i].url /\ unique_icons[k].width = 0
            /\ unique_icons[k + 1].url = all_icons[i + 1].url

\* ------------------------------------------------------------------ scored candidates
\* The two candidates agree on everything but score and rule_details.
SameCandidate(a, b) ==
  /\ a.url = b.url /\ a.width = b.width /\ a.height = b.height /\ a.format = b.format
  /\ a.alt_text = b.alt_text /\ a.css_classes = b.css_classes
  /\ a.element_id = b.element_id /\ a.parent_classes = b.parent_classes

\* C27: every scored candidate agrees with the deduplicated one it was made
\* from on everything but score and rule_details, so does every candidate
\* returned, and the deduplicated candidates stay what deduplication made
\* them, with score 0 and no rule details.
C27_ScoringKeepsCandidate ==
  pc \in {"scoring", "found"} =>
    /\ Len(scored_icons) <= Len(unique_icons)
    /\ \A k \in 1..Len(scored_icons) : SameCandidate(scored_icons[k], unique_icons[k])
    /\ \A n \in 1..Len(sorted_icons) :
         \E k \in 1..Len(unique_icons) : SameCandidate(sorted_icons[n], unique_icons[k])
    /\ unique_icons = Dedup(all_icons)
    /\ \A k \in 1..Len(unique_icons) :
         unique_icons[k].score = 0 /\ unique_icons[k].rule_details = <<>>

\* A candidate declared 16x16 was scored on an image of 100x100 and got a
\* score other than 0.
C27_Witness ==
  /\ pc = "found"
  /\ \E k \in 1..Len(scored_icons) :
       /\ unique_icons[k].width = 16 /\ unique_icons[k].height = 16
       /\ DecodesAsImage(fetched[k].body) /\ fetched[k].body.size = <<100, 100>>
       /\ scored_icons[k].width = 16

InFlight == {n \in 1..Len(call) : call[n].op = "fetch_and_validate" /\ ~call[n].done}

\* The URLs requested so far, answered or not.
Requested == Urls(attempts) \o [n \in 1..Len(call) |-> call[n].url]

\* C24: the URLs requested so far are the first ones of the list, in the
\* order of the list; at most one request is in flight; every request but
\* the last one sent has failed; and fetch_best_logo returns None when the
\* list is empty or every URL has been requested and has failed, and
\* otherwise what the one that succeeded gave.
C24_SequentialWalk ==
  /\ Cardinality(InFlight) <= 1
  /\ Len(Requested) <= Len(logo_urls)
  /\ \A k \in 1..Len(Requested) : Requested[k] = logo_urls[k]
  /\ \A k \in 1..Len(attempts) : Usable(attempts[k].resp) => k = Len(Requested)
  /\ pc = "done" =>
       /\ InFlight = {}
       /\ IF \E k \in 1..Len(attempts) : Usable(attempts[k].resp)
          THEN best_logo = ContentOf(attempts[Len(attempts)].resp)
          ELSE best_logo = NoLogo /\ Len(attempts) = Len(logo_urls)

\* The second URL of a list of three gave an image after the first had
\* failed, and the third was never requested.
C24_Witness ==
  /\ pc = "done" /\ Len(logo_urls) = 3 /\ Len(attempts) = 2
  /\ ~Usable(attempts[1].resp) /\ Usable(attempts[2].resp)
  /\ best_logo # NoLogo

\* fetch_best_logo returned None for the empty list without a request.
C24_WitnessEmptyList ==
  pc = "done" /\ logo_urls = <<>> /\ attempts = <<>> /\ best_logo = NoLogo

====
